---- MODULE Spec2Model ----
(***************************************************************************)
(* A model of zpodweb's vCenter / NSX inventory-discovery client           *)
(* (server/nsx-client.ts, server/vsphere-client.ts).                       *)
(*                                                                         *)
(* Strings the program inspects, orders or rewrites are sequences of       *)
(* UTF-16 code units (<<118, 109>> is "vm"); labels the program only       *)
(* passes around or compares with a literal (paths, SOAP actions, error    *)
(* messages, property names, host names) are TLA+ strings.  The JavaScript *)
(* value undefined is the one-element sequence Undefined.                  *)
(***************************************************************************)
EXTENDS Integers, Sequences, FiniteSets, TLC

VARIABLES call, pc, sent, resp, outcome, session, module, collector, handler, upload

vars == <<call, pc, sent, resp, outcome, session, module, collector, handler, upload>>

\* The PropertyCollector of the server when it is not working on a request.
NoWalk == [phase |-> "idle"]

\* The upload store without an entry, and no background task.
NoUpload == [status |-> "none", loaded |-> 0, error |-> "", aborted |-> FALSE, pc |-> "none", offset |-> 0, total |-> 0]

\* A /test handler before a request has come in.
NoHandler == [step |-> "idle", request |-> [route |-> "", method |-> "", json |-> "", credentials |-> FALSE, fields |-> {}], calls |-> <<>>, responses |-> <<>>]

(***************************************************************************)
(* Bounds of the model.                                                    *)
(***************************************************************************)
\* The largest number of objects a server puts in one result set.
MaxObjs == 2

\* The largest number of list*, check* and inventory calls started on one
\* Session.
MaxCalls == 2

\* The longest list of traversal definitions of a query.
MaxTraversals == 3

\* The largest number of objects in the inventory of a server.
MaxNodes == 6

\* The largest file of an upload, in chunks.
MaxChunks == 2

\* const CHUNK_SIZE = 64 * 1024 * 1024
CHUNK_SIZE == 67108864

(***************************************************************************)
(* JavaScript values and string primitives.                                *)
(***************************************************************************)
Undefined == <<-1>>

\* Boolean(v) for a string or undefined: undefined and "" are falsy.
Truthy(v) == v # Undefined /\ v # <<>>

\* a || b
OrElse(a, b) == IF Truthy(a) THEN a ELSE b

S_true == <<116, 114, 117, 101>>
S_false == <<102, 97, 108, 115, 101>>
S_Resources == <<82, 101, 115, 111, 117, 114, 99, 101, 115>>
S_vm == <<118, 109>>
S_OVERLAY == <<79, 86, 69, 82, 76, 65, 89>>
S_VLAN == <<86, 76, 65, 78>>
S_InvalidLogin == <<73, 110, 118, 97, 108, 105, 100, 76, 111, 103, 105, 110>>
S_DatastoreCluster == <<68, 97, 116, 97, 115, 116, 111, 114, 101, 32, 67, 108, 117, 115, 116, 101, 114>>
S_unknown == <<117, 110, 107, 110, 111, 119, 110>>
S_VMwareVCenterServer == <<86, 77, 119, 97, 114, 101, 32, 118, 67, 101, 110, 116, 101, 114, 32, 83, 101, 114, 118, 101, 114>>
S_amp == <<38, 97, 109, 112, 59>>
S_lt == <<38, 108, 116, 59>>
S_gt == <<38, 103, 116, 59>>

RECURSIVE FlatMap(_, _)
\* s.replace(/c/g, r[c]) for single code units: every unit c becomes Op(c).
FlatMap(Op(_), s) == IF s = <<>> THEN <<>> ELSE Op(Head(s)) \o FlatMap(Op, Tail(s))

\* One code unit of escXml's three chained replaces.  "&" is replaced first,
\* so the "&" of an inserted "&lt;" is never escaped again.
EscUnit(c) == IF c = 38 THEN S_amp ELSE IF c = 60 THEN S_lt ELSE IF c = 62 THEN S_gt ELSE <<c>>

escXml(s) == FlatMap(EscUnit, s)

\* Whether needle occurs in hay at position i (1-based).
OccursAt(hay, needle, i) == i + Len(needle) - 1 <= Len(hay) /\ SubSeq(hay, i, i + Len(needle) - 1) = needle

\* String.prototype.includes
Includes(hay, needle) == \E i \in 1..(Len(hay) + 1) : OccursAt(hay, needle, i)

\* s.split(sep)[0] for a one-unit separator: the text before the first sep.
SplitFirst(s, sep) == IF \E i \in 1..Len(s) : s[i] = sep THEN SubSeq(s, 1, (CHOOSE i \in 1..Len(s) : s[i] = sep /\ \A j \in 1..(i - 1) : s[j] # sep) - 1) ELSE s

\* Lower-case form of an ASCII code unit.
LowerUnit(c) == IF c >= 65 /\ c <= 90 THEN c + 32 ELSE c

IsSpaceUnit(c) == c \in {32, 9, 10, 13}

RECURSIVE DropSpaces(_)
DropSpaces(s) == IF s # <<>> /\ IsSpaceUnit(Head(s)) THEN DropSpaces(Tail(s)) ELSE s

\* s.replace(/^VMware vCenter Server\s*/i, "")
StripProductName(s) == IF Len(s) >= Len(S_VMwareVCenterServer) /\ [i \in 1..Len(S_VMwareVCenterServer) |-> LowerUnit(s[i])] = [i \in 1..Len(S_VMwareVCenterServer) |-> LowerUnit(S_VMwareVCenterServer[i])] THEN DropSpaces(SubSeq(s, Len(S_VMwareVCenterServer) + 1, Len(s))) ELSE s

IsDigitUnit(c) == c >= 48 /\ c <= 57

RECURSIVE Decimal(_, _)
Decimal(s, acc) == IF s = <<>> THEN acc ELSE Decimal(Tail(s), acc * 10 + (Head(s) - 48))

\* Number(v) || 0 on the strings of the model's alphabet (decimal digits and
\* letters): undefined and every string that is not all digits give NaN, and
\* NaN and 0 are falsy; "" gives 0.
NumberOrZero(v) == IF v # Undefined /\ v # <<>> /\ \A i \in 1..Len(v) : IsDigitUnit(v[i]) THEN Decimal(v, 0) ELSE 0

\* Math.round(n / d) for integers n and d > 0: floor(n / d + 1 / 2), so a
\* half rounds towards plus infinity.  MathRoundDown is Math.floor(n / d).
MathRoundDown(n, d) == n \div d

MathRound(n, d) == (n \div d) + (IF 2 * (n % d) >= d THEN 1 ELSE 0)

\* Code-unit order, the order of Array.prototype.sort without a comparator.
RECURSIVE UnitLess(_, _)
UnitLess(a, b) == IF b = <<>> THEN FALSE ELSE IF a = <<>> THEN TRUE ELSE IF Head(a) # Head(b) THEN Head(a) < Head(b) ELSE UnitLess(Tail(a), Tail(b))

\* sort()'s order on strings and undefined: undefined sorts last.
DefaultLess(a, b) == IF a = Undefined THEN FALSE ELSE IF b = Undefined THEN TRUE ELSE UnitLess(a, b)

\* Primary collation weight of a code unit in the root collation, on space,
\* digits and ASCII letters: space, then digits, then letters without case.
PrimaryWeight(c) == IF c = 32 THEN 0 ELSE IF IsDigitUnit(c) THEN c - 47 ELSE IF c >= 65 /\ c <= 90 THEN c - 54 ELSE IF c >= 97 /\ c <= 122 THEN c - 86 ELSE 100 + c

\* Tertiary (case) weight: lower case before upper case.
CaseWeight(c) == IF c >= 65 /\ c <= 90 THEN 1 ELSE 0

RECURSIVE SeqCompare(_, _)
\* -1, 0 or 1: lexicographic comparison of two sequences of integers.
SeqCompare(a, b) == IF a = <<>> /\ b = <<>> THEN 0 ELSE IF a = <<>> THEN -1 ELSE IF b = <<>> THEN 1 ELSE IF Head(a) < Head(b) THEN -1 ELSE IF Head(a) > Head(b) THEN 1 ELSE SeqCompare(Tail(a), Tail(b))

\* a.localeCompare(b) on space, digits and ASCII letters: the primary
\* weights decide, the case weights break their tie.
localeCompare(a, b) == LET p == SeqCompare([i \in 1..Len(a) |-> PrimaryWeight(a[i])], [i \in 1..Len(b) |-> PrimaryWeight(b[i])]) IN IF p # 0 THEN p ELSE SeqCompare([i \in 1..Len(a) |-> CaseWeight(a[i])], [i \in 1..Len(b) |-> CaseWeight(b[i])])

RECURSIVE InsertSorted(_, _, _)
\* x put into the sorted sequence s after every element not greater than it.
InsertSorted(Less(_, _), x, s) == IF s = <<>> THEN <<x>> ELSE IF Less(x, Head(s)) THEN <<x>> \o s ELSE <<Head(s)>> \o InsertSorted(Less, x, Tail(s))

RECURSIVE SortBy(_, _)
\* Array.prototype.sort, which is stable: equal elements keep their order.
SortBy(Less(_, _), s) == IF s = <<>> THEN <<>> ELSE InsertSorted(Less, s[Len(s)], SortBy(Less, SubSeq(s, 1, Len(s) - 1)))

\* Array.prototype.filter
RECURSIVE Filter(_, _)
Filter(Keep(_), s) == IF s = <<>> THEN <<>> ELSE (IF Keep(Head(s)) THEN <<Head(s)>> ELSE <<>>) \o Filter(Keep, Tail(s))

\* [...new Set(s)]: the first occurrence of each element, in order.
RECURSIVE Dedupe(_)
Dedupe(s) == IF s = <<>> THEN <<>> ELSE LET d == Dedupe(SubSeq(s, 1, Len(s) - 1)) IN IF \E i \in 1..Len(d) : d[i] = s[Len(s)] THEN d ELSE Append(d, s[Len(s)])

Range(s) == {s[i] : i \in 1..Len(s)}

\* The sequences over S of length at most n.
SeqsUpTo(S, n) == UNION {[1..k -> S] : k \in 0..n}

(***************************************************************************)
(* What a server may do with one request: answer it, or fail below HTTP.   *)
(* statusCode 0 stands for a response without a status code.               *)
(***************************************************************************)
Pending == [kind |-> "pending"]

HttpAnswer(statusCode, setCookie, body) == [kind |-> "response", statusCode |-> statusCode, setCookie |-> setCookie, body |-> body]

TransportError == [kind |-> "error", message |-> "connect ECONNREFUSED"]

\* The outcome of one invocation of a client function.
NoOutcome == [kind |-> "none", value |-> <<>>, message |-> ""]

Return(v) == [kind |-> "return", value |-> v, message |-> ""]

Throw(m) == [kind |-> "throw", value |-> <<>>, message |-> m]

(***************************************************************************)
(* REST transport (nsx-client.ts).                                         *)
(***************************************************************************)
\* The request restGet issues.  The Basic credentials are the base64 form
\* of username:password, kept here as the text that is encoded.
restGetRequest(host, path, username, password) == [transport |-> "rest", method |-> "GET", hostname |-> host, port |-> 443, path |-> path, authorization |-> username \o <<58>> \o password]

\* The promise restGet returns, settled by the server's answer.
restGet(answer) == IF answer.kind = "error" THEN [state |-> "rejected", error |-> answer.message] ELSE [state |-> "fulfilled", status |-> IF answer.statusCode = 0 THEN 500 ELSE answer.statusCode, body |-> answer.body]

(***************************************************************************)
(* JSON bodies.  A body is text that is not JSON, the JSON null, or a JSON *)
(* object whose members are the ones the client reads; a member that is    *)
(* absent reads as Undefined.  The results member is <<>> when absent and  *)
(* <<items>> when present.                                                 *)
(***************************************************************************)
JsonInvalid == [json |-> "invalid", product_version |-> Undefined, node_version |-> Undefined, results |-> <<>>]

JsonNull == [json |-> "null", product_version |-> Undefined, node_version |-> Undefined, results |-> <<>>]

JsonObject(product_version, node_version, results) == [json |-> "object", product_version |-> product_version, node_version |-> node_version, results |-> results]

\* The error of JSON.parse(body) followed by a member read, "" when there is none.
JsonError(body) == IF body.json = "invalid" THEN "Unexpected token < in JSON at position 0" ELSE IF body.json = "null" THEN "Cannot read properties of null" ELSE ""

\* data.results || []
ResultsOf(body) == IF Len(body.results) = 0 THEN <<>> ELSE body.results[1]

(***************************************************************************)
(* NSX client (nsx-client.ts).                                             *)
(***************************************************************************)
\* connect with the 403 case left out.
nsxConnectOnly401(host, username, password, res) == IF res.state = "rejected" THEN Throw(res.error) ELSE IF res.status = 401 THEN Throw("Invalid credentials") ELSE IF res.status # 200 THEN Throw("Unable to connect") ELSE IF JsonError(res.body) # "" THEN Throw(JsonError(res.body)) ELSE Return([host |-> host, username |-> username, password |-> password, version |-> OrElse(res.body.product_version, OrElse(res.body.node_version, S_unknown))])

\* connect, after its one request has settled.
nsxConnect(host, username, password, res) == IF res.state = "rejected" THEN Throw(res.error) ELSE IF res.status = 401 \/ res.status = 403 THEN Throw("Invalid credentials") ELSE IF res.status # 200 THEN Throw("Unable to connect") ELSE IF JsonError(res.body) # "" THEN Throw(JsonError(res.body)) ELSE Return([host |-> host, username |-> username, password |-> password, version |-> OrElse(res.body.product_version, OrElse(res.body.node_version, S_unknown))])

\* The zone filter letting every zone through.
IsAnyZone(r) == TRUE

IsOverlay(r) == r.transport_type = S_OVERLAY

DisplayNames(results) == [i \in 1..Len(results) |-> results[i].display_name]

\* listTransportZones reading the body before it looks at the status.
listTransportZonesParseFirst(res) == IF res.state = "rejected" THEN Throw(res.error) ELSE IF JsonError(res.body) # "" THEN Throw(JsonError(res.body)) ELSE IF res.status # 200 THEN Return(<<>>) ELSE Return(SortBy(DefaultLess, DisplayNames(Filter(IsOverlay, ResultsOf(res.body)))))

listTransportZones(res) == IF res.state = "rejected" THEN Throw(res.error) ELSE IF res.status # 200 THEN Return(<<>>) ELSE IF JsonError(res.body) # "" THEN Throw(JsonError(res.body)) ELSE Return(SortBy(DefaultLess, DisplayNames(Filter(IsOverlay, ResultsOf(res.body)))))

listEdgeClusters(res) == IF res.state = "rejected" THEN Throw(res.error) ELSE IF res.status # 200 THEN Return(<<>>) ELSE IF JsonError(res.body) # "" THEN Throw(JsonError(res.body)) ELSE Return(SortBy(DefaultLess, DisplayNames(ResultsOf(res.body))))

listT0Gateways(res) == IF res.state = "rejected" THEN Throw(res.error) ELSE IF res.status # 200 THEN Return(<<>>) ELSE IF JsonError(res.body) # "" THEN Throw(JsonError(res.body)) ELSE Return(SortBy(DefaultLess, DisplayNames(ResultsOf(res.body))))

checkEdgeCluster(res, name) == IF res.state = "rejected" THEN Throw(res.error) ELSE IF res.status # 200 THEN Return(FALSE) ELSE IF JsonError(res.body) # "" THEN Throw(JsonError(res.body)) ELSE Return(\E i \in 1..Len(ResultsOf(res.body)) : ResultsOf(res.body)[i].display_name = name)

checkT0(res, name) == IF res.state = "rejected" THEN Throw(res.error) ELSE IF res.status # 200 THEN Return(FALSE) ELSE IF JsonError(res.body) # "" THEN Throw(JsonError(res.body)) ELSE Return(\E i \in 1..Len(ResultsOf(res.body)) : ResultsOf(res.body)[i].display_name = name)

checkTransportZone(res, name) == IF res.state = "rejected" THEN Throw(res.error) ELSE IF res.status # 200 THEN Return(FALSE) ELSE IF JsonError(res.body) # "" THEN Throw(JsonError(res.body)) ELSE Return(\E i \in 1..Len(ResultsOf(res.body)) : ResultsOf(res.body)[i].display_name = name)

(***************************************************************************)
(* SOAP transport (vsphere-client.ts).                                     *)
(***************************************************************************)
RECURSIVE JoinCookies(_)
\* cookies.join("; ")
JoinCookies(cookies) == IF cookies = <<>> THEN <<>> ELSE IF Len(cookies) = 1 THEN cookies[1] ELSE cookies[1] \o <<59, 32>> \o JoinCookies(Tail(cookies))

\* The cookies argument left out: cookies?.length is falsy as for [].
NoCookies == <<>>

\* The request soapRequest issues: a POST to /sdk; the Cookie header is set
\* only for a non-empty cookie list (cookies?.length).
soapRequestPost(host, body, soapAction, cookies) == [transport |-> "soap", method |-> "POST", hostname |-> host, port |-> 443, path |-> "/sdk", SOAPAction |-> soapAction, Cookie |-> IF Len(cookies) = 0 THEN Undefined ELSE JoinCookies(cookies), body |-> body]

\* soapRequest keeping each Set-Cookie value with its attributes.
soapRequestWholeSetCookie(answer) == IF answer.kind = "error" THEN [state |-> "rejected", error |-> answer.message] ELSE [state |-> "fulfilled", status |-> IF answer.statusCode = 0 THEN 500 ELSE answer.statusCode, body |-> answer.body, cookies |-> [i \in 1..Len(answer.setCookie) |-> answer.setCookie[i]]]

\* The promise soapRequest returns, settled by the server's answer.
soapRequest(answer) == IF answer.kind = "error" THEN [state |-> "rejected", error |-> answer.message] ELSE [state |-> "fulfilled", status |-> IF answer.statusCode = 0 THEN 500 ELSE answer.statusCode, body |-> answer.body, cookies |-> [i \in 1..Len(answer.setCookie) |-> SplitFirst(answer.setCookie[i], 59)]]

(***************************************************************************)
(* XML helpers.  The body of a RetrieveServiceContent response is the      *)
(* sequence of its text-only elements, each a tag and its text.            *)
(***************************************************************************)
\* The text of the first <tag ...>text</tag> of the body, "" when there is none.
extractTag(xml, tag) == IF \E i \in 1..Len(xml) : xml[i].tag = tag THEN xml[CHOOSE i \in 1..Len(xml) : xml[i].tag = tag /\ \A j \in 1..(i - 1) : xml[j].tag # tag].text ELSE <<>>

(***************************************************************************)
(* vSphere connect (vsphere-client.ts).                                    *)
(***************************************************************************)
contentBody == [operation |-> "RetrieveServiceContent", this |-> "ServiceInstance"]

loginBody(sessionManager, username, password) == [operation |-> "Login", this |-> sessionManager, userName |-> escXml(username), password |-> escXml(password)]

\* vsConnectContentError without the check of the propertyCollector reference.
vsConnectContentErrorNoCollector(contentRes) == IF contentRes.state = "rejected" THEN contentRes.error ELSE IF contentRes.status # 200 THEN "Unable to connect" ELSE IF ~Truthy(extractTag(contentRes.body, "sessionManager")) \/ ~Truthy(extractTag(contentRes.body, "rootFolder")) THEN "Unable to parse ServiceContent" ELSE ""

\* The error connect throws once RetrieveServiceContent has settled, "" when
\* it goes on to log in.
vsConnectContentError(contentRes) == IF contentRes.state = "rejected" THEN contentRes.error ELSE IF contentRes.status # 200 THEN "Unable to connect" ELSE IF ~Truthy(extractTag(contentRes.body, "sessionManager")) \/ ~Truthy(extractTag(contentRes.body, "propertyCollector")) \/ ~Truthy(extractTag(contentRes.body, "rootFolder")) THEN "Unable to parse ServiceContent" ELSE ""

\* The Login request connect sends after a usable ServiceContent.
vsConnectLoginRequest(host, username, password, contentRes) == soapRequestPost(host, loginBody(extractTag(contentRes.body, "sessionManager"), username, password), "urn:vim25/Login", NoCookies)

\* vsConnectLogin looking for the fault marker whatever the status.
vsConnectLoginMarkerFirst(host, contentRes, loginRes) == IF loginRes.state = "rejected" THEN Throw(loginRes.error) ELSE IF Includes(loginRes.body, S_InvalidLogin) THEN Throw("Invalid credentials") ELSE IF loginRes.status # 200 THEN Throw("Login failed") ELSE Return([cookies |-> loginRes.cookies, host |-> host, version |-> StripProductName(OrElse(extractTag(contentRes.body, "fullName"), extractTag(contentRes.body, "version"))), propertyCollector |-> extractTag(contentRes.body, "propertyCollector"), rootFolder |-> extractTag(contentRes.body, "rootFolder")])

\* connect, after the Login request has settled.
vsConnectLogin(host, contentRes, loginRes) == IF loginRes.state = "rejected" THEN Throw(loginRes.error) ELSE IF loginRes.status # 200 THEN (IF Includes(loginRes.body, S_InvalidLogin) THEN Throw("Invalid credentials") ELSE Throw("Login failed")) ELSE Return([cookies |-> loginRes.cookies, host |-> host, version |-> StripProductName(OrElse(extractTag(contentRes.body, "fullName"), extractTag(contentRes.body, "version"))), propertyCollector |-> extractTag(contentRes.body, "propertyCollector"), rootFolder |-> extractTag(contentRes.body, "rootFolder")])

(***************************************************************************)
(* parseReturnValues.  The body of a RetrieveProperties response is the    *)
(* sequence of the blocks that follow its <returnval> tags.  A block has   *)
(* at most one <obj type="...">ref</obj> (obj is empty or one record) and  *)
(* a sequence of <propSet>s, each with at most one <name> and a sequence   *)
(* of <val> texts.                                                          *)
(***************************************************************************)
PropNames == {"name", "parent", "summary.capacity", "summary.freeSpace", "summary.multipleHostAccess", "summary.type"}

NoProps == [k \in PropNames |-> Undefined]

RECURSIVE ParsePropsLastVal(_, _)
\* The loop taking the last <val> of a propSet.
ParsePropsLastVal(propSets, props) == IF propSets = <<>> THEN props ELSE LET ps == Head(propSets) IN IF ps.name = <<>> \/ ps.vals = <<>> THEN ParsePropsLastVal(Tail(propSets), props) ELSE IF Truthy(props[ps.name[1]]) THEN ParsePropsLastVal(Tail(propSets), props) ELSE ParsePropsLastVal(Tail(propSets), [props EXCEPT ![ps.name[1]] = ps.vals[Len(ps.vals)]])

RECURSIVE ParseProps(_, _)
\* The while loop over the <propSet> blocks: a propSet without name or
\* value is skipped, and a name keeps the first value that is not "".
ParseProps(propSets, props) == IF propSets = <<>> THEN props ELSE LET ps == Head(propSets) IN IF ps.name = <<>> \/ ps.vals = <<>> THEN ParseProps(Tail(propSets), props) ELSE IF Truthy(props[ps.name[1]]) THEN ParseProps(Tail(propSets), props) ELSE ParseProps(Tail(propSets), [props EXCEPT ![ps.name[1]] = ps.vals[1]])

\* The regular expression for <obj> needs a non-empty type and reference.
ObjMatches(block) == block.obj # <<>> /\ block.obj[1].type # "" /\ block.obj[1].moRef # <<>>

RECURSIVE parseReturnValues(_)
parseReturnValues(xml) == IF xml = <<>> THEN <<>> ELSE (IF ObjMatches(Head(xml)) THEN <<[type |-> Head(xml).obj[1].type, moRef |-> Head(xml).obj[1].moRef, props |-> ParseProps(Head(xml).propSets, NoProps)]>> ELSE <<>>) \o parseReturnValues(Tail(xml))

(***************************************************************************)
(* TraversalSpec builder and the unified RetrieveProperties.               *)
(***************************************************************************)
TRAVERSE_FOLDER == [name |-> "traverseFolder", type |-> "Folder", path |-> "childEntity", selectSet |-> <<"traverseFolder">>]

TRAVERSE_DC_HOST == [name |-> "traverseDC", type |-> "Datacenter", path |-> "hostFolder", selectSet |-> <<"traverseFolder">>]

TRAVERSE_DC_DATASTORE == [name |-> "traverseDC", type |-> "Datacenter", path |-> "datastoreFolder", selectSet |-> <<"traverseFolder">>]

TRAVERSE_DC_VM == [name |-> "traverseDC", type |-> "Datacenter", path |-> "vmFolder", selectSet |-> <<"traverseFolder">>]

TRAVERSE_CR_RP == [name |-> "traverseCR", type |-> "ComputeResource", path |-> "resourcePool", selectSet |-> <<"traverseRP">>]

TRAVERSE_RP == [name |-> "traverseRP", type |-> "ResourcePool", path |-> "resourcePool", selectSet |-> <<"traverseRP">>]

\* The nested <selectSet> structure, one TraversalSpec element per definition.
buildTraversalXml(traversals) == [i \in 1..Len(traversals) |-> [xsiType |-> "vim25:TraversalSpec", name |-> traversals[i].name, type |-> traversals[i].type, path |-> traversals[i].path, selectSet |-> [j \in 1..Len(traversals[i].selectSet) |-> [name |-> traversals[i].selectSet[j]]]]]

IsFolderTraversal(t) == t.name = "traverseFolder"

IsOtherTraversal(t) == t.name # "traverseFolder"

\* Variants of the rewrite: one that appends the other names without the
\* Set, one that adds the name of the first other definition alone, and one
\* that leaves the query as it was written.
mergeTraversalsNoSet(traversals) == IF Filter(IsFolderTraversal, traversals) = <<>> THEN traversals ELSE LET folderTraversal == Head(Filter(IsFolderTraversal, traversals)) others == Filter(IsOtherTraversal, traversals) IN <<[folderTraversal EXCEPT !.selectSet = folderTraversal.selectSet \o [i \in 1..Len(others) |-> others[i].name]]>> \o others

mergeTraversalsFirstName(traversals) == IF Filter(IsFolderTraversal, traversals) = <<>> THEN traversals ELSE LET folderTraversal == Head(Filter(IsFolderTraversal, traversals)) others == Filter(IsOtherTraversal, traversals) IN <<[folderTraversal EXCEPT !.selectSet = Dedupe(folderTraversal.selectSet \o [i \in 1..(IF Len(others) > 0 THEN 1 ELSE 0) |-> others[i].name])]>> \o others

mergeTraversalsUnwired(traversals) == traversals

\* The rewrite at the head of retrieveProperties: the first traverseFolder
\* definition gets the names of the other definitions added to its
\* selectSet and is put first.
mergeTraversals(traversals) == IF Filter(IsFolderTraversal, traversals) = <<>> THEN traversals ELSE LET folderTraversal == Head(Filter(IsFolderTraversal, traversals)) others == Filter(IsOtherTraversal, traversals) IN <<[folderTraversal EXCEPT !.selectSet = Dedupe(folderTraversal.selectSet \o [i \in 1..Len(others) |-> others[i].name])]>> \o others

\* The module-level traversal definitions after retrieveProperties has
\* rewritten the traversals of a query.  moduleAfterMergeInPlace adds the
\* names to the selectSet of the shared traverseFolder definition itself.
moduleAfterMergeInPlace(defs, traversals) == IF Filter(IsFolderTraversal, traversals) = <<>> THEN defs ELSE [defs EXCEPT !.TRAVERSE_FOLDER = mergeTraversals(traversals)[1]]

\* mergedFolder and the rewritten query are new objects ({...spread}): the
\* definitions stay as they are.
moduleAfterMerge(defs, traversals) == defs

PropertyQuery(type, pathSet, traversals) == [type |-> type, pathSet |-> pathSet, traversals |-> traversals]

\* The request retrieveProperties sends for a query.
retrievePropertiesRequest(sess, query) == soapRequestPost(sess.host, [operation |-> "RetrieveProperties", this |-> sess.propertyCollector, type |-> query.type, pathSet |-> query.pathSet, obj |-> sess.rootFolder, selectSet |-> buildTraversalXml(mergeTraversals(query.traversals))], "urn:vim25/RetrieveProperties", sess.cookies)

\* The promise retrieveProperties returns: the parsed body of the response,
\* whatever its status.
retrieveProperties(answer) == IF soapRequest(answer).state = "rejected" THEN [state |-> "rejected", error |-> soapRequest(answer).error] ELSE [state |-> "fulfilled", value |-> parseReturnValues(soapRequest(answer).body)]

(***************************************************************************)
(* vSphere inventory API.  Each operator is the function after its awaits: *)
(* its arguments are the settled promises of its retrieveProperties calls. *)
(***************************************************************************)
\* Bytes in one gigabyte, the divisor of the capacity figures.
GiB == 1073741824

\* results.map((r) => r.props["name"])
NamesOf(results) == [i \in 1..Len(results) |-> results[i].props["name"]]

\* await Promise.all([a, b]) throws when one of the promises is rejected.
AllError(a, b) == IF a.state = "rejected" THEN a.error ELSE IF b.state = "rejected" THEN b.error ELSE ""

\* listDatacenters without the final sort().
listDatacentersUnsorted(r) == IF r.state = "rejected" THEN Throw(r.error) ELSE Return(Filter(Truthy, NamesOf(r.value)))

listDatacenters(r) == IF r.state = "rejected" THEN Throw(r.error) ELSE Return(SortBy(DefaultLess, Filter(Truthy, NamesOf(r.value))))

checkDatacenter(r, name) == IF r.state = "rejected" THEN Throw(r.error) ELSE Return(name \in Range(listDatacenters(r).value))

AsCluster(name) == [name |-> name, type |-> "cluster"]

\* The resource pool filter without the test for the root pool "Resources".
IsUserResourcePoolWithRoot(r) == r.type = "ResourcePool" /\ Truthy(r.props["name"])

IsUserResourcePool(r) == r.type = "ResourcePool" /\ Truthy(r.props["name"]) /\ r.props["name"] # S_Resources

AsResourcePool(r) == [name |-> r.props["name"], type |-> "resource_pool"]

NameLocaleLess(a, b) == localeCompare(a.name, b.name) < 0

\* listResourcePools returning the clusters alone when the resource pool
\* query is rejected.
listResourcePoolsPartial(clusterRes, rpRes) == IF clusterRes.state = "fulfilled" /\ rpRes.state = "rejected" THEN LET clusterNames == SortBy(DefaultLess, Filter(Truthy, NamesOf(clusterRes.value))) IN Return([i \in 1..Len(clusterNames) |-> AsCluster(clusterNames[i])]) ELSE IF AllError(clusterRes, rpRes) # "" THEN Throw(AllError(clusterRes, rpRes)) ELSE LET clusterNames == SortBy(DefaultLess, Filter(Truthy, NamesOf(clusterRes.value))) pools == Filter(IsUserResourcePool, rpRes.value) IN Return([i \in 1..Len(clusterNames) |-> AsCluster(clusterNames[i])] \o SortBy(NameLocaleLess, [i \in 1..Len(pools) |-> AsResourcePool(pools[i])]))

listResourcePools(clusterRes, rpRes) == IF AllError(clusterRes, rpRes) # "" THEN Throw(AllError(clusterRes, rpRes)) ELSE LET clusterNames == SortBy(DefaultLess, Filter(Truthy, NamesOf(clusterRes.value))) pools == Filter(IsUserResourcePool, rpRes.value) IN Return([i \in 1..Len(clusterNames) |-> AsCluster(clusterNames[i])] \o SortBy(NameLocaleLess, [i \in 1..Len(pools) |-> AsResourcePool(pools[i])]))

checkResourcePool(r, name) == IF r.state = "rejected" THEN Throw(r.error) ELSE Return(\E i \in 1..Len(r.value) : r.value[i].props["name"] = name)

\* The capacity figures of one Datastore or StoragePod object.
capacityGB(r) == MathRound(NumberOrZero(r.props["summary.capacity"]), GiB)

usedGB(r) == MathRound(NumberOrZero(r.props["summary.capacity"]) - NumberOrZero(r.props["summary.freeSpace"]), GiB)

\* Standalone datastores: shared, and the parent is not a StoragePod.
\* IsStandaloneAnyParent leaves the parent out.
IsStandaloneAnyParent(r, podMoRefs) == Truthy(r.props["name"]) /\ r.props["summary.multipleHostAccess"] = S_true

IsStandalone(r, podMoRefs) == Truthy(r.props["name"]) /\ r.props["summary.multipleHostAccess"] = S_true /\ r.props["parent"] \notin podMoRefs

AsDatastoreItem(r) == [moRef |-> r.moRef, name |-> r.props["name"], type |-> OrElse(r.props["summary.type"], S_unknown), capacityGB |-> capacityGB(r), usedGB |-> usedGB(r)]

AsClusterItem(r) == [moRef |-> r.moRef, name |-> r.props["name"], type |-> S_DatastoreCluster, capacityGB |-> capacityGB(r), usedGB |-> usedGB(r)]

HasName(r) == Truthy(r.props["name"])

\* a.type.localeCompare(b.type) || a.name.localeCompare(b.name), negative
TypeNameLess(a, b) == IF localeCompare(a.type, b.type) # 0 THEN localeCompare(a.type, b.type) < 0 ELSE localeCompare(a.name, b.name) < 0

listDatastores(podRes, dsRes) == IF AllError(podRes, dsRes) # "" THEN Throw(AllError(podRes, dsRes)) ELSE LET podMoRefs == {podRes.value[i].moRef : i \in 1..Len(podRes.value)} Standalone(r) == IsStandalone(r, podMoRefs) datastores == Filter(Standalone, dsRes.value) clusters == Filter(HasName, podRes.value) IN Return(SortBy(TypeNameLess, [i \in 1..Len(clusters) |-> AsClusterItem(clusters[i])] \o [i \in 1..Len(datastores) |-> AsDatastoreItem(datastores[i])]))

\* checkDatastoreOnlyDatastores searches the Datastore results alone.
checkDatastoreOnlyDatastores(dsRes, podRes, name) == IF AllError(dsRes, podRes) # "" THEN Throw(AllError(dsRes, podRes)) ELSE LET all == dsRes.value Matches(r) == r.props["name"] = name IN IF Filter(Matches, all) = <<>> THEN Return([exists |-> FALSE]) ELSE Return([exists |-> TRUE, capacityGB |-> capacityGB(Head(Filter(Matches, all))), usedGB |-> usedGB(Head(Filter(Matches, all)))])

checkDatastore(dsRes, podRes, name) == IF AllError(dsRes, podRes) # "" THEN Throw(AllError(dsRes, podRes)) ELSE LET all == dsRes.value \o podRes.value Matches(r) == r.props["name"] = name IN IF Filter(Matches, all) = <<>> THEN Return([exists |-> FALSE]) ELSE Return([exists |-> TRUE, capacityGB |-> capacityGB(Head(Filter(Matches, all))), usedGB |-> usedGB(Head(Filter(Matches, all)))])

checkVmFolder(r, name) == IF r.state = "rejected" THEN Throw(r.error) ELSE Return(\E i \in 1..Len(r.value) : r.value[i].props["name"] = name)

(***************************************************************************)
(* listVmFolders.  nodeMap is the Map in insertion order: a sequence of    *)
(* entries, one per key.                                                   *)
(***************************************************************************)
HasKey(nodeMap, moRef) == \E i \in 1..Len(nodeMap) : nodeMap[i].moRef = moRef

\* nodeMap.get(moRef), for a key of the map
GetNode(nodeMap, moRef) == nodeMap[CHOOSE i \in 1..Len(nodeMap) : nodeMap[i].moRef = moRef]

\* nodeMap.set: a new key is appended, an old key keeps its place.
MapSet(nodeMap, node) == IF HasKey(nodeMap, node.moRef) THEN [i \in 1..Len(nodeMap) |-> IF nodeMap[i].moRef = node.moRef THEN node ELSE nodeMap[i]] ELSE Append(nodeMap, node)

RECURSIVE BuildNodeMap(_, _)
\* The first loop: one node per named Folder object.
BuildNodeMap(results, nodeMap) == IF results = <<>> THEN nodeMap ELSE LET r == Head(results) IN IF r.type # "Folder" \/ ~Truthy(r.props["name"]) THEN BuildNodeMap(Tail(results), nodeMap) ELSE BuildNodeMap(Tail(results), MapSet(nodeMap, [moRef |-> r.moRef, name |-> r.props["name"], parentRef |-> OrElse(r.props["parent"], <<>>)]))

\* The parent test taking a folder that names itself as parent for a folder
\* without parent.
HasParentNodeOther(nodeMap, node) == Truthy(node.parentRef) /\ HasKey(nodeMap, node.parentRef) /\ node.parentRef # node.moRef

\* node.parentRef && nodeMap.has(node.parentRef)
HasParentNode(nodeMap, node) == Truthy(node.parentRef) /\ HasKey(nodeMap, node.parentRef)

\* The second loop: the children list of moRef, in the map's order.
ChildrenOf(nodeMap, moRef) == LET IsChild(n) == HasParentNode(nodeMap, n) /\ n.parentRef = moRef kids == Filter(IsChild, nodeMap) IN [i \in 1..Len(kids) |-> kids[i].moRef]

RECURSIVE FindRootsKeepVm(_, _)
\* The third loop without the "vm" case: every node without a parent in
\* the map is a root.
FindRootsKeepVm(nodeMap, k) == IF k = 0 THEN <<>> ELSE FindRootsKeepVm(nodeMap, k - 1) \o (IF HasParentNode(nodeMap, nodeMap[k]) THEN <<>> ELSE <<nodeMap[k].moRef>>)

RECURSIVE FindRootsDropVm(_, _)
\* The third loop skipping a "vm" node without promoting its children.
FindRootsDropVm(nodeMap, k) == IF k = 0 THEN <<>> ELSE FindRootsDropVm(nodeMap, k - 1) \o (IF HasParentNode(nodeMap, nodeMap[k]) \/ nodeMap[k].name = S_vm THEN <<>> ELSE <<nodeMap[k].moRef>>)

RECURSIVE FindRoots(_, _)
\* The third loop over the first k entries: a node without a parent in the
\* map is a root, unless it is named "vm": then its children are.
FindRoots(nodeMap, k) == IF k = 0 THEN <<>> ELSE FindRoots(nodeMap, k - 1) \o (IF HasParentNode(nodeMap, nodeMap[k]) THEN <<>> ELSE IF nodeMap[k].name = S_vm THEN ChildrenOf(nodeMap, nodeMap[k].moRef) ELSE <<nodeMap[k].moRef>>)

TreeNameLess(a, b) == localeCompare(a.name, b.name) < 0

RECURSIVE buildTree(_, _)
buildTree(nodeMap, moRef) == LET kids == ChildrenOf(nodeMap, moRef) IN [name |-> GetNode(nodeMap, moRef).name, children |-> SortBy(TreeNameLess, [i \in 1..Len(kids) |-> buildTree(nodeMap, kids[i])])]

listVmFolders(r) == IF r.state = "rejected" THEN Throw(r.error) ELSE LET nodeMap == BuildNodeMap(r.value, <<>>) roots == FindRoots(nodeMap, Len(nodeMap)) IN Return(SortBy(TreeNameLess, [i \in 1..Len(roots) |-> buildTree(nodeMap, roots[i])]))

(***************************************************************************)
(* The inputs of connect and the answers of the servers it talks to.       *)
(***************************************************************************)
\* "root" and "admin"
Usernames == {<<114, 111, 111, 116>>, <<97, 100, 109, 105, 110>>}

\* "p&w<d>"
Passwords == {<<112, 38, 119, 60, 100, 62>>}

Hosts == {"vc.lab"}

\* HTTP status codes a server answers with; 0 is an answer without one.
RawStatuses == {0, 200, 401, 403, 404, 500}

\* "SessionManager", "propertyCollector", "group-d1"
RefSessionManager == <<83, 101, 115, 115, 105, 111, 110, 77, 97, 110, 97, 103, 101, 114>>

RefPropertyCollector == <<112, 114, 111, 112, 101, 114, 116, 121, 67, 111, 108, 108, 101, 99, 116, 111, 114>>

RefRootFolder == <<103, 114, 111, 117, 112, 45, 100, 49>>

\* "8.0.2"
VersionText == <<56, 46, 48, 46, 50>>

\* "VMware vCenter Server 8.0.2 build-1"
FullNameText == <<86, 77, 119, 97, 114, 101, 32, 118, 67, 101, 110, 116, 101, 114, 32, 83, 101, 114, 118, 101, 114, 32, 56, 46, 48, 46, 50, 32, 98, 117, 105, 108, 100, 45, 49>>

\* One element of a ServiceContent body, none when the value is Undefined.
Elem(tag, v) == IF v = Undefined THEN <<>> ELSE <<[tag |-> tag, text |-> v]>>

\* ServiceContent bodies: each required reference is absent, empty or
\* present; the version is given with or without the product's full name.
ContentBodies == {Elem("rootFolder", rf) \o Elem("propertyCollector", pcRef) \o Elem("version", vf[1]) \o Elem("fullName", vf[2]) \o Elem("sessionManager", sm) : rf \in {Undefined, <<>>, RefRootFolder}, pcRef \in {Undefined, <<>>, RefPropertyCollector}, sm \in {Undefined, <<>>, RefSessionManager}, vf \in {<<VersionText, FullNameText>>, <<VersionText, Undefined>>, <<Undefined, Undefined>>}}

ContentAnswers == {HttpAnswer(st, <<>>, b) : st \in RawStatuses, b \in ContentBodies}

\* "<returnval><key>52ab</key></returnval>", an InvalidLogin fault, another fault
LoginBodies == {<<60, 114, 101, 116, 117, 114, 110, 118, 97, 108, 62, 60, 107, 101, 121, 62, 53, 50, 97, 98, 60, 47, 107, 101, 121, 62, 60, 47, 114, 101, 116, 117, 114, 110, 118, 97, 108, 62>>, <<60, 102, 97, 117, 108, 116, 115, 116, 114, 105, 110, 103, 62, 98, 97, 100, 60, 47, 102, 97, 117, 108, 116, 115, 116, 114, 105, 110, 103, 62, 60, 100, 101, 116, 97, 105, 108, 62, 60, 73, 110, 118, 97, 108, 105, 100, 76, 111, 103, 105, 110, 70, 97, 117, 108, 116, 47, 62, 60, 47, 100, 101, 116, 97, 105, 108, 62>>, <<60, 100, 101, 116, 97, 105, 108, 62, 60, 78, 111, 80, 101, 114, 109, 105, 115, 115, 105, 111, 110, 70, 97, 117, 108, 116, 47, 62, 60, 47, 100, 101, 116, 97, 105, 108, 62>>}

\* Set-Cookie headers: none, "vmware_soap_session=52ab; Path=/; HttpOnly",
\* and that one followed by "lang=en".
SetCookieHeaders == {<<>>, <<<<118, 109, 119, 97, 114, 101, 95, 115, 111, 97, 112, 95, 115, 101, 115, 115, 105, 111, 110, 61, 53, 50, 97, 98, 59, 32, 80, 97, 116, 104, 61, 47, 59, 32, 72, 116, 116, 112, 79, 110, 108, 121>>>>, <<<<118, 109, 119, 97, 114, 101, 95, 115, 111, 97, 112, 95, 115, 101, 115, 115, 105, 111, 110, 61, 53, 50, 97, 98, 59, 32, 80, 97, 116, 104, 61, 47, 59, 32, 72, 116, 116, 112, 79, 110, 108, 121>>, <<108, 97, 110, 103, 61, 101, 110>>>>}

LoginAnswers == {HttpAnswer(st, sc, b) : st \in RawStatuses, sc \in SetCookieHeaders, b \in LoginBodies}

\* "4.1.0" and "4.0.9"
NodeBodies == {JsonInvalid, JsonNull} \cup {JsonObject(pv, nv, <<>>) : pv \in {Undefined, <<>>, <<52, 46, 49, 46, 48>>}, nv \in {Undefined, <<52, 46, 48, 46, 57>>}}

NodeAnswers == {HttpAnswer(st, <<>>, b) : st \in RawStatuses, b \in NodeBodies}

(***************************************************************************)
(* The Sessions list* and check* are called with, and the answers of a     *)
(* vCenter to RetrieveProperties.  A result set is a sequence of at most   *)
(* MaxObjs objects drawn from the templates of the queried type; an object *)
(* without a reference of its own gets one from its position, so that the  *)
(* references of one result set differ.                                    *)
(***************************************************************************)
\* The Session connect returns for a complete ServiceContent and a
\* successful Login that sets one cookie.
VsSessions == {vsConnectLogin(h, soapRequest(HttpAnswer(200, <<>>, Elem("rootFolder", RefRootFolder) \o Elem("propertyCollector", RefPropertyCollector) \o Elem("version", VersionText) \o Elem("sessionManager", RefSessionManager))), soapRequest(HttpAnswer(200, <<<<118, 109, 119, 97, 114, 101, 95, 115, 111, 97, 112, 95, 115, 101, 115, 115, 105, 111, 110, 61, 53, 50, 97, 98, 59, 32, 80, 97, 116, 104, 61, 47, 59, 32, 72, 116, 116, 112, 79, 110, 108, 121>>>>, <<60, 114, 101, 116, 117, 114, 110, 118, 97, 108, 62, 60, 107, 101, 121, 62, 53, 50, 97, 98, 60, 47, 107, 101, 121, 62, 60, 47, 114, 101, 116, 117, 114, 110, 118, 97, 108, 62>>))).value : h \in Hosts}

\* Status codes of the answers to RetrieveProperties.
RpStatuses == {200, 500}

\* Names of inventory objects: "A", "a", "B", "P".
N_A == <<65>>

N_a == <<97>>

N_B == <<66>>

N_P == <<80>>

\* "Prod" and "Dev"
N_Prod == <<80, 114, 111, 100>>

N_Dev == <<68, 101, 118>>

\* Object references: pods "group-p1" and "group-p2", the datastore folder
\* "group-s5", the datacenter "datacenter-3".
RefPod1 == <<103, 114, 111, 117, 112, 45, 112, 49>>

RefPod2 == <<103, 114, 111, 117, 112, 45, 112, 50>>

RefDatastoreFolder == <<103, 114, 111, 117, 112, 45, 115, 53>>

RefDatacenter == <<100, 97, 116, 97, 99, 101, 110, 116, 101, 114, 45, 51>>

\* The reference of the i-th object of a result set: "obj-" and a digit.
MoRef(i) == <<111, 98, 106, 45>> \o <<48 + i>>

\* Byte counts as the server prints them: half a gigabyte less one, half a
\* gigabyte, a gigabyte, a gigabyte plus one, a gigabyte and a half less one.
B_HalfLess == <<53, 51, 54, 56, 55, 48, 57, 49, 49>>

B_Half == <<53, 51, 54, 56, 55, 48, 57, 49, 50>>

B_One == <<49, 48, 55, 51, 55, 52, 49, 56, 50, 52>>

B_OneMore == <<49, 48, 55, 51, 55, 52, 49, 56, 50, 53>>

B_OneHalfLess == <<49, 54, 49, 48, 54, 49, 50, 55, 51, 53>>

\* "x1", not a number
B_NotANumber == <<120, 49>>

\* "VMFS" and "NFS"
T_VMFS == <<86, 77, 70, 83>>

T_NFS == <<78, 70, 83>>

\* The order in which a server lists the properties of an object.
PropOrder == <<"name", "summary.capacity", "summary.freeSpace", "summary.multipleHostAccess", "summary.type", "parent">>

\* An object template: its type, its reference (Undefined: by position) and
\* its properties (Undefined: the server sends no such propSet).
Obj(type, moRef, name, capacity, freeSpace, mha, dsType, parent) == [type |-> type, moRef |-> moRef, props |-> [k \in PropNames |-> CASE k = "name" -> name [] k = "summary.capacity" -> capacity [] k = "summary.freeSpace" -> freeSpace [] k = "summary.multipleHostAccess" -> mha [] k = "summary.type" -> dsType [] OTHER -> parent]]

Named(type, name) == Obj(type, Undefined, name, Undefined, Undefined, Undefined, Undefined, Undefined)

RECURSIVE PropSetsOf(_, _)
PropSetsOf(props, keys) == IF keys = <<>> THEN <<>> ELSE (IF props[Head(keys)] = Undefined THEN <<>> ELSE <<[name |-> <<Head(keys)>>, vals |-> <<props[Head(keys)]>>]>>) \o PropSetsOf(props, Tail(keys))

\* The <returnval> block of the i-th object of a result set.
BlockOf(t, i) == [obj |-> <<[type |-> t.type, moRef |-> IF t.moRef = Undefined THEN MoRef(i) ELSE t.moRef]>>, propSets |-> PropSetsOf(t.props, PropOrder)]

DistinctRefs(ts) == \A i, j \in 1..Len(ts) : (i # j /\ ts[i].moRef # Undefined) => ts[i].moRef # ts[j].moRef

BodiesOf(templates) == {[i \in 1..Len(ts) |-> BlockOf(ts[i], i)] : ts \in {x \in SeqsUpTo(templates, MaxObjs) : DistinctRefs(x)}}

DatacenterTemplates == {Named("Datacenter", n) : n \in {Undefined, <<>>, N_A, N_a, N_B}}

\* A block without <obj>, and a block whose name propSet has no <val> and is
\* followed by one with two.
OddBlocks == {[obj |-> <<>>, propSets |-> <<[name |-> <<"name">>, vals |-> <<N_P>>]>>], [obj |-> <<[type |-> "Datacenter", moRef |-> RefDatacenter]>>, propSets |-> <<[name |-> <<"name">>, vals |-> <<>>], [name |-> <<"name">>, vals |-> <<N_P, N_A>>]>>]}

\* A propSet with a name and no <val>, and one with two values.
LoneBlocks == {[obj |-> <<[type |-> "Datacenter", moRef |-> RefDatacenter]>>, propSets |-> <<[name |-> <<"name">>, vals |-> vs]>>] : vs \in {<<>>, <<N_A, N_B>>}}

\* Result sets where a block without <obj> stands before or after a block
\* with one.
MixedBodies == {<<b, BlockOf(Named("Datacenter", N_A), 2)>> : b \in OddBlocks \cup LoneBlocks} \cup {<<BlockOf(Named("Datacenter", N_B), 1), b>> : b \in OddBlocks}

DatacenterBodies == BodiesOf(DatacenterTemplates) \cup {<<b>> : b \in OddBlocks \cup LoneBlocks} \cup MixedBodies

ComputeResourceTemplates == {Named("ClusterComputeResource", n) : n \in {Undefined, N_A, N_a}}

ResourcePoolTemplates == {Named("ResourcePool", n) : n \in {Undefined, S_Resources, N_A, N_a}} \cup {Named("VirtualApp", N_B)}

\* Storage pods: "group-p1" with or without a name, "group-p2" named like a datastore.
StoragePodTemplates == {Obj("StoragePod", RefPod1, N_P, B_One, B_Half, Undefined, Undefined, Undefined), Obj("StoragePod", RefPod1, Undefined, B_OneHalfLess, B_OneMore, Undefined, Undefined, Undefined), Obj("StoragePod", RefPod2, N_A, B_HalfLess, B_One, Undefined, Undefined, Undefined)}

\* Datastores as listDatastores asks for them: every combination of named or
\* not, shared or not, and inside pod "group-p1" or not, then objects that
\* lack a property, then the byte counts at the edges of rounding.
DatastoreTemplates == {Obj("Datastore", Undefined, n, B_One, B_Half, m, T_VMFS, pr) : n \in {Undefined, N_A}, m \in {S_true, S_false}, pr \in {RefPod1, RefDatastoreFolder}} \cup {Obj("Datastore", Undefined, N_a, B_One, B_Half, Undefined, T_NFS, RefDatastoreFolder), Obj("Datastore", Undefined, N_B, Undefined, Undefined, S_true, Undefined, Undefined), Obj("Datastore", Undefined, N_B, B_OneHalfLess, B_OneMore, S_true, T_NFS, RefDatastoreFolder), Obj("Datastore", Undefined, N_B, B_HalfLess, B_One, S_true, T_NFS, RefDatastoreFolder), Obj("Datastore", Undefined, N_B, B_NotANumber, B_Half, S_true, T_NFS, RefDatastoreFolder)}

\* Datastores as checkDatastore asks for them: name and byte counts.
DatastoreSummaryTemplates == {Obj("Datastore", Undefined, n, cf[1], cf[2], Undefined, Undefined, Undefined) : n \in {Undefined, N_A, N_B}, cf \in {<<B_One, B_Half>>, <<B_HalfLess, B_One>>}}

\* Folders as listVmFolders asks for them: the parent is the datacenter, the
\* first or the second folder of the result set, or missing.
FolderTemplates == {Obj("Folder", Undefined, n, Undefined, Undefined, Undefined, Undefined, pr) : n \in {Undefined, S_vm, N_Prod, N_Dev}, pr \in {Undefined, RefDatacenter, MoRef(1), MoRef(2)}}

FolderNameTemplates == {Named("Folder", n) : n \in {Undefined, S_vm, N_Prod}}

AnswersWith(bodies) == {HttpAnswer(st, <<>>, b) : st \in RpStatuses, b \in bodies}

DatacenterAnswers == AnswersWith(DatacenterBodies)

ComputeResourceAnswers == AnswersWith(BodiesOf(ComputeResourceTemplates))

ResourcePoolAnswers == AnswersWith(BodiesOf(ResourcePoolTemplates))

StoragePodAnswers == AnswersWith(BodiesOf(StoragePodTemplates))

DatastoreAnswers == AnswersWith(BodiesOf(DatastoreTemplates))

DatastoreSummaryAnswers == AnswersWith(BodiesOf(DatastoreSummaryTemplates))

FolderAnswers == AnswersWith(BodiesOf(FolderTemplates))

FolderNameAnswers == AnswersWith(BodiesOf(FolderNameTemplates))

\* The answers a server may give to a query of this type and pathSet.
RpAnswers(type, pathSet) == CASE type = "Datacenter" -> DatacenterAnswers [] type = "ComputeResource" -> ComputeResourceAnswers [] type = "ResourcePool" -> ResourcePoolAnswers [] type = "StoragePod" -> StoragePodAnswers [] type = "Datastore" -> (IF "parent" \in Range(pathSet) THEN DatastoreAnswers ELSE DatastoreSummaryAnswers) [] OTHER -> (IF "parent" \in Range(pathSet) THEN FolderAnswers ELSE FolderNameAnswers)

\* The Session nsx connect returned.
NsxSessions == {nsxConnect(h, u, p, restGet(HttpAnswer(200, <<>>, JsonObject(<<52, 46, 49, 46, 48>>, Undefined, <<>>)))).value : h \in Hosts, u \in {<<97, 100, 109, 105, 110>>}, p \in Passwords}

\* The items of a results array: named or not, overlay or VLAN.
NsxItems == {[display_name |-> n, transport_type |-> t] : n \in {N_A, N_B}, t \in {S_OVERLAY, S_VLAN}} \cup {[display_name |-> Undefined, transport_type |-> S_OVERLAY]}

NsxListBodies == {JsonInvalid, JsonNull, JsonObject(Undefined, Undefined, <<>>)} \cup {JsonObject(Undefined, Undefined, <<items>>) : items \in SeqsUpTo(NsxItems, MaxObjs)}

NsxListAnswers == {HttpAnswer(st, <<>>, b) : st \in RawStatuses, b \in NsxListBodies}

\* The answers a server may give to a request.
AnswersTo(req) == {TransportError} \cup (IF req.transport = "rest" THEN (IF req.path = "/api/v1/node" THEN NodeAnswers ELSE NsxListAnswers) ELSE IF req.SOAPAction = "urn:vim25/RetrieveServiceContent" THEN ContentAnswers ELSE IF req.SOAPAction = "urn:vim25/Login" THEN LoginAnswers ELSE RpAnswers(req.body.type, req.body.pathSet))


(***************************************************************************)
(* State.  call is the client function being run and its arguments, pc its *)
(* position, sent the requests it has issued so far, resp the server's     *)
(* answer to each (Pending until it arrives), outcome what the function    *)
(* returned or threw, session the Session the caller holds.                *)
(***************************************************************************)
NoCall == [op |-> "none", host |-> "", username |-> <<>>, password |-> <<>>, name |-> Undefined]

NoSession == [provider |-> "none"]

Answered(i) == i \in DOMAIN resp /\ resp[i].kind # "pending"

\* A function starts: it issues reqs and waits at position p.
Invoke(c, reqs, p) == pc = "idle" /\ call' = c /\ sent' = reqs /\ resp' = [i \in 1..Len(reqs) |-> Pending] /\ pc' = p /\ UNCHANGED <<upload, handler, collector, outcome, session, module>>

\* A function settles with outcome o.
Settle(o) == outcome' = o /\ pc' = "done" /\ UNCHANGED <<upload, handler, collector, call, sent, resp, session, module>>

\* The server answers one request in flight, or the transport fails.
ServerAnswer == \E i \in DOMAIN sent : resp[i].kind = "pending" /\ \E a \in AnswersTo(sent[i]) : resp' = [resp EXCEPT ![i] = a] /\ UNCHANGED <<upload, handler, collector, call, pc, sent, outcome, session, module>>

\* The module-level traversal definitions, as the module sets them.
ModuleTraversals == [TRAVERSE_FOLDER |-> TRAVERSE_FOLDER, TRAVERSE_DC_HOST |-> TRAVERSE_DC_HOST, TRAVERSE_DC_DATASTORE |-> TRAVERSE_DC_DATASTORE, TRAVERSE_DC_VM |-> TRAVERSE_DC_VM, TRAVERSE_CR_RP |-> TRAVERSE_CR_RP, TRAVERSE_RP |-> TRAVERSE_RP]

InitIdle == call = NoCall /\ pc = "idle" /\ sent = <<>> /\ resp = <<>> /\ outcome = NoOutcome /\ module = ModuleTraversals /\ collector = NoWalk /\ handler = NoHandler /\ upload = NoUpload

(***************************************************************************)
(* connect of both providers.                                              *)
(***************************************************************************)
nsxConnectCall == \E h \in Hosts, u \in Usernames, p \in Passwords : Invoke([op |-> "nsx.connect", host |-> h, username |-> u, password |-> p, name |-> Undefined], <<restGetRequest(h, "/api/v1/node", u, p)>>, "nsx.connect")

nsxConnectReturn == pc = "nsx.connect" /\ Answered(1) /\ Settle(nsxConnect(call.host, call.username, call.password, restGet(resp[1])))

vsConnectCall == \E h \in Hosts, u \in Usernames, p \in Passwords : Invoke([op |-> "vsphere.connect", host |-> h, username |-> u, password |-> p, name |-> Undefined], <<soapRequestPost(h, contentBody, "urn:vim25/RetrieveServiceContent", NoCookies)>>, "vsphere.connect.content")

\* connect resumes after RetrieveServiceContent: it throws, or sends Login.
vsConnectContent == pc = "vsphere.connect.content" /\ Answered(1) /\ LET contentRes == soapRequest(resp[1]) IN IF vsConnectContentError(contentRes) # "" THEN Settle(Throw(vsConnectContentError(contentRes))) ELSE sent' = Append(sent, vsConnectLoginRequest(call.host, call.username, call.password, contentRes)) /\ resp' = Append(resp, Pending) /\ pc' = "vsphere.connect.login" /\ UNCHANGED <<upload, handler, collector, call, outcome, session, module>>

vsConnectLoginReturn == pc = "vsphere.connect.login" /\ Answered(2) /\ Settle(vsConnectLogin(call.host, soapRequest(resp[1]), soapRequest(resp[2])))

InitConnect == InitIdle /\ session = NoSession

NextConnect == nsxConnectCall \/ nsxConnectReturn \/ vsConnectCall \/ vsConnectContent \/ vsConnectLoginReturn \/ ServerAnswer

SpecConnect == InitConnect /\ [][NextConnect]_vars

(***************************************************************************)
(* Properties of connect, checked under SpecConnect.                       *)
(***************************************************************************)
IsVsConnect == call.op = "vsphere.connect"

IsNsxConnect == call.op = "nsx.connect"

\* Request i was answered over HTTP (the transport did not fail).
GotResponse(i) == Answered(i) /\ resp[i].kind = "response"

LoginSent == \E i \in DOMAIN sent : sent[i].transport = "soap" /\ sent[i].SOAPAction = "urn:vim25/Login"

TagAbsent(body, tag) == \A i \in 1..Len(body) : body[i].tag # tag

SomeReferenceAbsent(body) == TagAbsent(body, "sessionManager") \/ TagAbsent(body, "propertyCollector") \/ TagAbsent(body, "rootFolder")

\* C2: vSphere connect sends RetrieveServiceContent first; a status other
\* than 200 makes it throw "Unable to connect", a status 200 whose body lacks
\* the sessionManager, propertyCollector or rootFolder reference makes it
\* throw "Unable to parse ServiceContent", and in neither case is a Login
\* request ever sent.
C2_ContentFailures ==
  IsVsConnect =>
    /\ sent[1].SOAPAction = "urn:vim25/RetrieveServiceContent"
    /\ ((GotResponse(1) /\ resp[1].statusCode # 200) => (~LoginSent /\ (pc = "done" => outcome = Throw("Unable to connect"))))
    /\ ((GotResponse(1) /\ resp[1].statusCode = 200 /\ SomeReferenceAbsent(resp[1].body)) => (~LoginSent /\ (pc = "done" => outcome = Throw("Unable to parse ServiceContent"))))

C2_Witness ==
  /\ IsVsConnect /\ pc = "done" /\ Len(sent) = 1 /\ GotResponse(1) /\ resp[1].statusCode = 200
  /\ TagAbsent(resp[1].body, "propertyCollector")
  /\ extractTag(resp[1].body, "sessionManager") # <<>> /\ extractTag(resp[1].body, "rootFolder") # <<>>
  /\ outcome = Throw("Unable to parse ServiceContent")

\* C3 as stated: a Login response whose body contains InvalidLogin makes
\* connect throw "Invalid credentials" whatever its status; any other Login
\* response with a non-200 status makes it throw "Login failed"; a Session is
\* returned only when neither applies.
C3_MarkerAnyStatus ==
  (IsVsConnect /\ pc = "done" /\ GotResponse(2)) =>
    /\ (Includes(resp[2].body, S_InvalidLogin) => outcome = Throw("Invalid credentials"))
    /\ ((~Includes(resp[2].body, S_InvalidLogin) /\ resp[2].statusCode # 200) => outcome = Throw("Login failed"))
    /\ (outcome.kind = "return" => (~Includes(resp[2].body, S_InvalidLogin) /\ resp[2].statusCode = 200))

\* C3 amended: a Login response with a status other than 200 makes connect
\* throw "Invalid credentials" when its body contains InvalidLogin and "Login
\* failed" when it does not; a Session is returned exactly when the status of
\* the Login response is 200, whatever its body contains.
C3_MarkerOnFailure ==
  (IsVsConnect /\ pc = "done" /\ GotResponse(2)) =>
    /\ ((Includes(resp[2].body, S_InvalidLogin) /\ resp[2].statusCode # 200) => outcome = Throw("Invalid credentials"))
    /\ ((~Includes(resp[2].body, S_InvalidLogin) /\ resp[2].statusCode # 200) => outcome = Throw("Login failed"))
    /\ (outcome.kind = "return" <=> resp[2].statusCode = 200)

C3_Witness == IsVsConnect /\ pc = "done" /\ GotResponse(2) /\ resp[2].statusCode = 500 /\ Includes(resp[2].body, S_InvalidLogin) /\ outcome = Throw("Invalid credentials")

\* C4: when the server answers a request of connect, of either provider,
\* with HTTP 401, connect throws "Invalid credentials".
C4_Status401 ==
  ((IsVsConnect \/ IsNsxConnect) /\ pc = "done" /\ \E i \in DOMAIN resp : GotResponse(i) /\ resp[i].statusCode = 401) =>
    outcome = Throw("Invalid credentials")

\* C5: every failure of connect, of either provider, carries one of the
\* fixed messages, and a transport failure is reported as "Unable to
\* connect".
C5_FixedErrorKinds ==
  ((IsVsConnect \/ IsNsxConnect) /\ pc = "done" /\ outcome.kind = "throw") =>
    /\ outcome.message \in {"Invalid credentials", "Unable to connect", "Unable to parse ServiceContent", "Login failed"}
    /\ ((\E i \in DOMAIN resp : resp[i].kind = "error") => outcome.message = "Unable to connect")

\* C6: NSX connect issues one GET /api/v1/node; it throws "Invalid
\* credentials" exactly when the status is 401 or 403, "Unable to connect"
\* for every other status but 200, and returns a session only for status
\* 200, holding the host, username and password it was given.
C6_NsxConnect ==
  IsNsxConnect =>
    /\ Len(sent) = 1 /\ sent[1].method = "GET" /\ sent[1].path = "/api/v1/node"
    /\ ((pc = "done" /\ GotResponse(1)) => (outcome = Throw("Invalid credentials") <=> resp[1].statusCode \in {401, 403}))
    /\ ((pc = "done" /\ GotResponse(1) /\ resp[1].statusCode \notin {200, 401, 403}) => outcome = Throw("Unable to connect"))
    /\ ((pc = "done" /\ outcome.kind = "return") => (GotResponse(1) /\ resp[1].statusCode = 200 /\ outcome.value.host = call.host /\ outcome.value.username = call.username /\ outcome.value.password = call.password))

C6_Witness == IsNsxConnect /\ pc = "done" /\ GotResponse(1) /\ resp[1].statusCode = 403 /\ outcome = Throw("Invalid credentials")

(***************************************************************************)
(* The vSphere list* and check* functions, called with a Session that      *)
(* connect returned.                                                       *)
(***************************************************************************)
Q_Datacenter == PropertyQuery("Datacenter", <<"name">>, <<TRAVERSE_FOLDER>>)

Q_ComputeResource == PropertyQuery("ComputeResource", <<"name">>, <<TRAVERSE_FOLDER, TRAVERSE_DC_HOST>>)

Q_ResourcePool == PropertyQuery("ResourcePool", <<"name">>, <<TRAVERSE_FOLDER, TRAVERSE_DC_HOST, TRAVERSE_CR_RP, TRAVERSE_RP>>)

Q_StoragePod == PropertyQuery("StoragePod", <<"name", "summary.capacity", "summary.freeSpace">>, <<TRAVERSE_FOLDER, TRAVERSE_DC_DATASTORE>>)

Q_Datastore == PropertyQuery("Datastore", <<"name", "summary.capacity", "summary.freeSpace", "summary.multipleHostAccess", "summary.type", "parent">>, <<TRAVERSE_FOLDER, TRAVERSE_DC_DATASTORE>>)

Q_DatastoreSummary == PropertyQuery("Datastore", <<"name", "summary.capacity", "summary.freeSpace">>, <<TRAVERSE_FOLDER, TRAVERSE_DC_DATASTORE>>)

Q_Folder == PropertyQuery("Folder", <<"name", "parent">>, <<TRAVERSE_FOLDER, TRAVERSE_DC_VM>>)

Q_FolderName == PropertyQuery("Folder", <<"name">>, <<TRAVERSE_FOLDER, TRAVERSE_DC_VM>>)

\* The names check* is asked about: "A", "P" and "vm".
CheckNames == {N_A, N_P, S_vm}

QueryCall(op, name) == [op |-> op, host |-> "", username |-> <<>>, password |-> <<>>, name |-> name]

\* The promise of the i-th retrieveProperties call of the running function.
Promise(i) == IF Answered(i) THEN retrieveProperties(resp[i]) ELSE [state |-> "pending"]

\* await Promise.all(...) resumes: every promise is fulfilled, or one is rejected.
Joined == (\A i \in DOMAIN resp : Answered(i)) \/ (\E i \in DOMAIN resp : resp[i].kind = "error")

listDatacentersCall == Invoke(QueryCall("listDatacenters", Undefined), <<retrievePropertiesRequest(session, Q_Datacenter)>>, "listDatacenters")

\* listDatacenters sending its request once more after a transport error.
listDatacentersReturnRetry == pc = "listDatacenters" /\ Answered(Len(sent)) /\ IF resp[1].kind = "error" /\ Len(sent) = 1 THEN sent' = Append(sent, sent[1]) /\ resp' = Append(resp, Pending) /\ UNCHANGED <<upload, handler, collector, call, pc, outcome, session, module>> ELSE Settle(listDatacenters(Promise(Len(sent))))

listDatacentersReturn == pc = "listDatacenters" /\ Joined /\ Settle(listDatacenters(Promise(1)))

checkDatacenterCall == \E n \in CheckNames : Invoke(QueryCall("checkDatacenter", n), <<retrievePropertiesRequest(session, Q_Datacenter)>>, "checkDatacenter")

checkDatacenterReturn == pc = "checkDatacenter" /\ Joined /\ Settle(checkDatacenter(Promise(1), call.name))

listResourcePoolsCall == Invoke(QueryCall("listResourcePools", Undefined), <<retrievePropertiesRequest(session, Q_ComputeResource), retrievePropertiesRequest(session, Q_ResourcePool)>>, "listResourcePools")

listResourcePoolsReturn == pc = "listResourcePools" /\ Joined /\ Settle(listResourcePools(Promise(1), Promise(2)))

checkResourcePoolCall == \E n \in CheckNames : Invoke(QueryCall("checkResourcePool", n), <<retrievePropertiesRequest(session, Q_ComputeResource)>>, "checkResourcePool")

checkResourcePoolReturn == pc = "checkResourcePool" /\ Joined /\ Settle(checkResourcePool(Promise(1), call.name))

listDatastoresCall == Invoke(QueryCall("listDatastores", Undefined), <<retrievePropertiesRequest(session, Q_StoragePod), retrievePropertiesRequest(session, Q_Datastore)>>, "listDatastores")

listDatastoresReturn == pc = "listDatastores" /\ Joined /\ Settle(listDatastores(Promise(1), Promise(2)))

checkDatastoreCall == \E n \in CheckNames : Invoke(QueryCall("checkDatastore", n), <<retrievePropertiesRequest(session, Q_DatastoreSummary), retrievePropertiesRequest(session, Q_StoragePod)>>, "checkDatastore")

checkDatastoreReturn == pc = "checkDatastore" /\ Joined /\ Settle(checkDatastore(Promise(1), Promise(2), call.name))

listVmFoldersCall == Invoke(QueryCall("listVmFolders", Undefined), <<retrievePropertiesRequest(session, Q_Folder)>>, "listVmFolders")

listVmFoldersReturn == pc = "listVmFolders" /\ Joined /\ Settle(listVmFolders(Promise(1)))

checkVmFolderCall == \E n \in CheckNames : Invoke(QueryCall("checkVmFolder", n), <<retrievePropertiesRequest(session, Q_FolderName)>>, "checkVmFolder")

checkVmFolderReturn == pc = "checkVmFolder" /\ Joined /\ Settle(checkVmFolder(Promise(1), call.name))

InitVsphere == InitIdle /\ session \in VsSessions

NextVsphere == \/ listDatacentersCall \/ listDatacentersReturn \/ checkDatacenterCall \/ checkDatacenterReturn
               \/ listResourcePoolsCall \/ listResourcePoolsReturn \/ checkResourcePoolCall \/ checkResourcePoolReturn
               \/ listDatastoresCall \/ listDatastoresReturn \/ checkDatastoreCall \/ checkDatastoreReturn
               \/ listVmFoldersCall \/ listVmFoldersReturn \/ checkVmFolderCall \/ checkVmFolderReturn
               \/ ServerAnswer

SpecVsphere == InitVsphere /\ [][NextVsphere]_vars

(***************************************************************************)
(* The NSX list* and check* functions, called with a Session that connect  *)
(* returned.                                                               *)
(***************************************************************************)
NsxGet(path) == <<restGetRequest(session.host, path, session.username, session.password)>>

listTransportZonesCall == Invoke(QueryCall("listTransportZones", Undefined), NsxGet("/api/v1/transport-zones"), "listTransportZones")

listTransportZonesReturn == pc = "listTransportZones" /\ Answered(1) /\ Settle(listTransportZones(restGet(resp[1])))

listEdgeClustersCall == Invoke(QueryCall("listEdgeClusters", Undefined), NsxGet("/api/v1/edge-clusters"), "listEdgeClusters")

listEdgeClustersReturn == pc = "listEdgeClusters" /\ Answered(1) /\ Settle(listEdgeClusters(restGet(resp[1])))

listT0GatewaysCall == Invoke(QueryCall("listT0Gateways", Undefined), NsxGet("/policy/api/v1/infra/tier-0s"), "listT0Gateways")

listT0GatewaysReturn == pc = "listT0Gateways" /\ Answered(1) /\ Settle(listT0Gateways(restGet(resp[1])))

checkEdgeClusterCall == \E n \in CheckNames : Invoke(QueryCall("checkEdgeCluster", n), NsxGet("/api/v1/edge-clusters"), "checkEdgeCluster")

checkEdgeClusterReturn == pc = "checkEdgeCluster" /\ Answered(1) /\ Settle(checkEdgeCluster(restGet(resp[1]), call.name))

checkT0Call == \E n \in CheckNames : Invoke(QueryCall("checkT0", n), NsxGet("/policy/api/v1/infra/tier-0s"), "checkT0")

checkT0Return == pc = "checkT0" /\ Answered(1) /\ Settle(checkT0(restGet(resp[1]), call.name))

checkTransportZoneCall == \E n \in CheckNames : Invoke(QueryCall("checkTransportZone", n), NsxGet("/api/v1/transport-zones"), "checkTransportZone")

checkTransportZoneReturn == pc = "checkTransportZone" /\ Answered(1) /\ Settle(checkTransportZone(restGet(resp[1]), call.name))

InitNsx == InitIdle /\ session \in NsxSessions

NextNsx == \/ listTransportZonesCall \/ listTransportZonesReturn \/ listEdgeClustersCall \/ listEdgeClustersReturn
           \/ listT0GatewaysCall \/ listT0GatewaysReturn \/ checkEdgeClusterCall \/ checkEdgeClusterReturn
           \/ checkT0Call \/ checkT0Return \/ checkTransportZoneCall \/ checkTransportZoneReturn
           \/ ServerAnswer

SpecNsx == InitNsx /\ [][NextNsx]_vars

(***************************************************************************)
(* Several calls on one Session.  A call runs up to its first await when   *)
(* it is started: it builds its queries from the module-level traversal    *)
(* definitions and sends their requests, one query after the other; the    *)
(* inventory handler starts its four list calls in one go.  call is the    *)
(* sequence of the calls started, sent the requests sent so far.           *)
(***************************************************************************)
\* The query objects of the functions, built from the definitions defs.
QueryFrom(defs, kind) == CASE kind = "Datacenter" -> PropertyQuery("Datacenter", <<"name">>, <<defs.TRAVERSE_FOLDER>>) [] kind = "ComputeResource" -> PropertyQuery("ComputeResource", <<"name">>, <<defs.TRAVERSE_FOLDER, defs.TRAVERSE_DC_HOST>>) [] kind = "ResourcePool" -> PropertyQuery("ResourcePool", <<"name">>, <<defs.TRAVERSE_FOLDER, defs.TRAVERSE_DC_HOST, defs.TRAVERSE_CR_RP, defs.TRAVERSE_RP>>) [] kind = "StoragePod" -> PropertyQuery("StoragePod", <<"name", "summary.capacity", "summary.freeSpace">>, <<defs.TRAVERSE_FOLDER, defs.TRAVERSE_DC_DATASTORE>>) [] kind = "Datastore" -> PropertyQuery("Datastore", <<"name", "summary.capacity", "summary.freeSpace", "summary.multipleHostAccess", "summary.type", "parent">>, <<defs.TRAVERSE_FOLDER, defs.TRAVERSE_DC_DATASTORE>>) [] kind = "DatastoreSummary" -> PropertyQuery("Datastore", <<"name", "summary.capacity", "summary.freeSpace">>, <<defs.TRAVERSE_FOLDER, defs.TRAVERSE_DC_DATASTORE>>) [] kind = "Folder" -> PropertyQuery("Folder", <<"name", "parent">>, <<defs.TRAVERSE_FOLDER, defs.TRAVERSE_DC_VM>>) [] OTHER -> PropertyQuery("Folder", <<"name">>, <<defs.TRAVERSE_FOLDER, defs.TRAVERSE_DC_VM>>)

\* The queries of a call, in the order they are made.
QueryKinds(op) == CASE op = "listDatacenters" -> <<"Datacenter">> [] op = "checkDatacenter" -> <<"Datacenter">> [] op = "listResourcePools" -> <<"ComputeResource", "ResourcePool">> [] op = "checkResourcePool" -> <<"ComputeResource">> [] op = "listDatastores" -> <<"StoragePod", "Datastore">> [] op = "checkDatastore" -> <<"DatastoreSummary", "StoragePod">> [] op = "listVmFolders" -> <<"Folder">> [] op = "checkVmFolder" -> <<"FolderName">> [] OTHER -> <<"Datacenter", "ComputeResource", "ResourcePool", "StoragePod", "Datastore", "Folder">>

RECURSIVE retrievePropertiesEach(_, _, _)
\* retrieveProperties run for each query in turn: the requests sent and the
\* module-level definitions afterwards.
retrievePropertiesEach(sess, defs, kinds) == IF kinds = <<>> THEN [requests |-> <<>>, module |-> defs] ELSE LET query == QueryFrom(defs, Head(kinds)) rest == retrievePropertiesEach(sess, moduleAfterMerge(defs, query.traversals), Tail(kinds)) IN [requests |-> <<retrievePropertiesRequest(sess, query)>> \o rest.requests, module |-> rest.module]

\* The eight functions and the inventory handler.
CallOps == {"listDatacenters", "checkDatacenter", "listResourcePools", "checkResourcePool", "listDatastores", "checkDatastore", "listVmFolders", "checkVmFolder", "handleVsphereInventory"}

\* A call starts while others are still waiting for their answers.
StartCall == \E op \in CallOps : Len(call) < MaxCalls /\ LET run == retrievePropertiesEach(session, module, QueryKinds(op)) IN call' = Append(call, [op |-> op, done |-> FALSE]) /\ sent' = sent \o run.requests /\ module' = run.module /\ UNCHANGED <<upload, handler, collector, pc, resp, outcome, session>>

\* A call gets its answers and returns; it writes to nothing it shares.
FinishCall == \E k \in 1..Len(call) : ~call[k].done /\ call' = [call EXCEPT ![k].done = TRUE] /\ UNCHANGED <<upload, handler, collector, pc, sent, resp, outcome, session, module>>

InitCalls == call = <<>> /\ pc = "idle" /\ sent = <<>> /\ resp = <<>> /\ outcome = NoOutcome /\ module = ModuleTraversals /\ session \in VsSessions /\ collector = NoWalk /\ handler = NoHandler /\ upload = NoUpload

NextCalls == StartCall \/ FinishCall

SpecCalls == InitCalls /\ [][NextCalls]_vars

(***************************************************************************)
(* The two clients together: a caller that has no Session calls connect,   *)
(* a caller that holds a Session calls the list* and check* functions of   *)
(* the client that returned it.                                            *)
(***************************************************************************)
InitClients == InitIdle /\ session \in ({NoSession} \cup VsSessions \cup NsxSessions)

NextClients == \/ (session \in {NoSession} /\ NextConnect)
               \/ (session \in VsSessions /\ NextVsphere)
               \/ (session \in NsxSessions /\ NextNsx)

SpecClients == InitClients /\ [][NextClients]_vars

(***************************************************************************)
(* Properties of the vSphere list* and check* functions, under            *)
(* SpecVsphere.                                                            *)
(***************************************************************************)
Done(op) == pc = "done" /\ call.op = op

AllHttp == \A i \in DOMAIN resp : resp[i].kind = "response"

\* The objects of the i-th response, as the client reads them.
Parsed(i) == parseReturnValues(resp[i].body)

VsListOps == {"listDatacenters", "listResourcePools", "listDatastores", "listVmFolders"}

VsCheckOps == {"checkDatacenter", "checkResourcePool", "checkVmFolder"}

EmptyOutcome ==
    IF call.op = "checkDatastore" THEN outcome.kind = "return" /\ outcome.value = [exists |-> FALSE]
    ELSE IF call.op \in VsListOps THEN outcome.kind = "return" /\ outcome.value = <<>>
    ELSE outcome.kind = "return" /\ outcome.value = FALSE

\* C1: when a RetrieveProperties response of a vSphere list* or check*
\* call has an HTTP status other than 200, whatever its body, the call
\* returns [] / false / {exists: false} and does not throw.
C1_NonOkEmpty ==
    (pc = "done" /\ call.op \in (VsListOps \cup VsCheckOps \cup {"checkDatastore"}) /\ AllHttp
        /\ (\E i \in DOMAIN resp : resp[i].statusCode # 200))
    => EmptyOutcome

DatastoreEntries == {outcome.value[i] : i \in {k \in 1..Len(outcome.value) : outcome.value[k].type # S_DatastoreCluster}}

PodRefs == {Parsed(1)[j].moRef : j \in 1..Len(Parsed(1))}

MeetsStandalone(d) ==
    /\ d.props["name"] # Undefined /\ d.props["name"] # <<>>
    /\ d.props["summary.multipleHostAccess"] = <<116, 114, 117, 101>>
    /\ \A j \in 1..Len(Parsed(1)) : Parsed(1)[j].moRef # d.props["parent"]

EmittedFor(d) == \E e \in DatastoreEntries : e.moRef = d.moRef /\ e.name = d.props["name"]

\* C8: listDatastores emits an individual entry for a datastore exactly
\* when the datastore has a name, its multipleHostAccess is "true" and its
\* parent is the moRef of no StoragePod of the pod results; no emitted
\* datastore entry has a parent that is a StoragePod moRef.
C8_StandaloneIff ==
    (Done("listDatastores") /\ AllHttp)
    => (/\ outcome.kind = "return"
        /\ LET pods == Parsed(1)
               stores == Parsed(2)
               entries == DatastoreEntries
               podRefs == {pods[j].moRef : j \in 1..Len(pods)}
               Meets(d) == d.props["name"] # Undefined /\ d.props["name"] # <<>> /\ d.props["summary.multipleHostAccess"] = <<116, 114, 117, 101>> /\ d.props["parent"] \notin podRefs
               Emitted(d) == \E e \in entries : e.moRef = d.moRef /\ e.name = d.props["name"]
           IN  /\ \A i \in 1..Len(stores) : (Emitted(stores[i]) <=> Meets(stores[i]))
               /\ \A e \in entries : \E i \in 1..Len(stores) :
                      stores[i].moRef = e.moRef /\ stores[i].props["parent"] \notin podRefs)

\* A named, shared datastore inside a StoragePod is left out while one
\* outside every StoragePod is emitted.
C8_Witness ==
    /\ Done("listDatastores") /\ AllHttp /\ outcome.kind = "return"
    /\ \E i, j \in 1..Len(Parsed(2)) :
          /\ MeetsStandalone(Parsed(2)[i]) /\ EmittedFor(Parsed(2)[i])
          /\ Parsed(2)[j].props["name"] = N_A
          /\ Parsed(2)[j].props["summary.multipleHostAccess"] = S_true
          /\ Parsed(2)[j].props["parent"] \in PodRefs
          /\ ~EmittedFor(Parsed(2)[j])

\* k is n / 2^30 rounded to the nearest integer, a half rounding up.
IsRound(k, n) == LET d == n - k * 1073741824 IN -536870912 <= d /\ d < 536870912

RawCapacity(r) == NumberOrZero(r.props["summary.capacity"])

RawFreeSpace(r) == NumberOrZero(r.props["summary.freeSpace"])

RoundedFrom(e, r) == IsRound(e.capacityGB, RawCapacity(r)) /\ IsRound(e.usedGB, RawCapacity(r) - RawFreeSpace(r))

SourceOf(e) == IF e.type = S_DatastoreCluster THEN Parsed(1) ELSE Parsed(2)

\* C9: for every entry listDatastores emits and every match checkDatastore
\* reports, capacityGB is round(capacity / 2^30) and usedGB is
\* round((capacity - freeSpace) / 2^30) of the object's byte counts, a
\* missing count being 0.
C9_RoundedGB ==
    /\ (Done("listDatastores") /\ outcome.kind = "return")
       => (LET pods == Parsed(1)
               stores == Parsed(2)
           IN  \A i \in 1..Len(outcome.value) :
                   LET source == IF outcome.value[i].type = S_DatastoreCluster THEN pods ELSE stores
                   IN  \E j \in 1..Len(source) :
                           /\ source[j].moRef = outcome.value[i].moRef
                           /\ RoundedFrom(outcome.value[i], source[j]))
    /\ (Done("checkDatastore") /\ outcome.kind = "return")
       => (outcome.value.exists
           => (\E r \in Range(Parsed(1) \o Parsed(2)) : r.props["name"] = call.name /\ RoundedFrom(outcome.value, r)))

\* A datastore of 1 GiB with half a GiB free is listed with 1 and 1, and
\* one with no byte counts at all with 0 and 0.
C9_Witness ==
    /\ Done("listDatastores") /\ outcome.kind = "return" /\ Len(Parsed(2)) = 2
    /\ \E i, j \in 1..Len(outcome.value) :
          /\ outcome.value[i].capacityGB = 1 /\ outcome.value[i].usedGB = 1
          /\ outcome.value[j].name = N_B /\ outcome.value[j].capacityGB = 0 /\ outcome.value[j].usedGB = 0
          /\ outcome.value[j].type = S_unknown

NameFound == \E r \in Range(Parsed(1) \o Parsed(2)) : r.props["name"] = call.name

\* C10: checkDatastore returns exists: true with the capacity figures
\* exactly when an object of the Datastore results or of the StoragePod
\* results has the name; otherwise it returns {exists: false}, and it does
\* not throw.
C10_ExistsIffNamed ==
    (Done("checkDatastore") /\ AllHttp)
    => (/\ outcome.kind = "return"
        /\ (NameFound => (outcome.value.exists /\ DOMAIN outcome.value = {"exists", "capacityGB", "usedGB"}))
        /\ ((~NameFound) => (outcome.value = [exists |-> FALSE])))

\* The name is the name of a StoragePod and of no Datastore.
C10_Witness ==
    /\ Done("checkDatastore") /\ AllHttp /\ call.name = N_P
    /\ (\A i \in 1..Len(Parsed(1)) : Parsed(1)[i].props["name"] # N_P)
    /\ Len(Parsed(1)) > 0
    /\ NameFound
    /\ outcome.kind = "return" /\ outcome.value.exists /\ outcome.value.capacityGB = 1

(***************************************************************************)
(* Properties of the NSX list* and check* functions, under SpecNsx.        *)
(***************************************************************************)
NsxListOps == {"listTransportZones", "listEdgeClusters", "listT0Gateways"}

NsxCheckOps == {"checkEdgeCluster", "checkT0", "checkTransportZone"}

\* C7: when the GET of an NSX list* or check* call is answered with a
\* status other than 200, the call returns [] (list) or false (check) and
\* does not throw, whatever the body.
C7_NsxNonOk ==
    (pc = "done" /\ call.op \in (NsxListOps \cup NsxCheckOps) /\ resp[1].kind = "response" /\ resp[1].statusCode # 200)
    => (/\ outcome.kind = "return"
        /\ ((call.op \in NsxListOps) => (outcome.value = <<>>))
        /\ ((call.op \in NsxCheckOps) => (outcome.value = FALSE)))

\* A 500 whose body is not JSON, answered to listTransportZones.
C7_Witness ==
    /\ Done("listTransportZones") /\ resp[1].kind = "response" /\ resp[1].statusCode = 500
    /\ resp[1].body = JsonInvalid
    /\ outcome = Return(<<>>)

(***************************************************************************)
(* Properties of listVmFolders, under SpecVsphere.                         *)
(***************************************************************************)
\* The Folder objects of the response that carry a name.
Folders == LET IsFolder(r) == r.type = "Folder" /\ r.props["name"] # Undefined /\ r.props["name"] # <<>> IN Filter(IsFolder, Parsed(1))

InList(ref) == \E i \in 1..Len(Folders) : Folders[i].moRef = ref

FolderAt(ref) == Folders[CHOOSE i \in 1..Len(Folders) : Folders[i].moRef = ref]

RECURSIVE LeavesList(_, _)
\* The chain of parent references from ref leaves the list within n steps.
LeavesList(ref, n) == IF ~InList(ref) THEN TRUE ELSE IF n = 0 THEN FALSE ELSE LeavesList(FolderAt(ref).props["parent"], n - 1)

ChainsTerminate == \A i \in 1..Len(Folders) : LeavesList(Folders[i].moRef, Len(Folders))

\* A folder named "vm" whose parent is not in the list.
TopLevelVm(f) == f.name = <<118, 109>> /\ ~InList(f.parent)

AsFolder(r) == [name |-> r.props["name"], parent |-> r.props["parent"]]

RECURSIVE ForestEdges(_, _)
\* The nodes of a forest, each with the name of the node above it (<<>> for
\* a root), in depth-first order.
ForestEdges(forest, above) == IF forest = <<>> THEN <<>> ELSE <<[name |-> Head(forest).name, above |-> above]>> \o ForestEdges(Head(forest).children, Head(forest).name) \o ForestEdges(Tail(forest), above)

TreeEdges == ForestEdges(outcome.value, <<>>)

TreeHasVm == \E i \in 1..Len(TreeEdges) : TreeEdges[i].name = <<118, 109>>

ListedFolders == Done("listVmFolders") /\ AllHttp /\ outcome.kind = "return" /\ ChainsTerminate

\* C11 as claimed: with terminating parent chains and one folder named
\* "vm", anywhere in the list, the tree has no node named "vm".
C11_NoVmAnywhere ==
    (ListedFolders /\ Cardinality({i \in 1..Len(Folders) : Folders[i].props["name"] = <<118, 109>>}) = 1)
    => ~TreeHasVm

\* C11, amended: with terminating parent chains, the tree has a node named
\* "vm" exactly when a folder named "vm" has its parent in the list; a
\* folder named "vm" whose parent is outside the list is never a node.
C11_OnlyTopLevelVmHidden ==
    ListedFolders
    => (TreeHasVm <=> (\E i \in 1..Len(Folders) : Folders[i].props["name"] = <<118, 109>> /\ InList(Folders[i].props["parent"])))

\* A top-level "vm" folder with a child: the child is in the tree, "vm" is not.
C11_Witness ==
    /\ ListedFolders /\ ~TreeHasVm /\ Len(outcome.value) > 0
    /\ \E i, j \in 1..Len(Folders) :
          /\ TopLevelVm(AsFolder(Folders[i]))
          /\ Folders[j].props["parent"] = Folders[i].moRef

\* The name above a folder that is shown: the name of its parent folder,
\* or <<>> when the parent is outside the list or is a hidden "vm" folder.
AboveOf(r) == IF InList(r.props["parent"]) /\ ~TopLevelVm(AsFolder(FolderAt(r.props["parent"]))) THEN FolderAt(r.props["parent"]).props["name"] ELSE <<>>

Shown(r) == ~TopLevelVm(AsFolder(r))

ExpectedEdges == LET shown == Filter(Shown, Folders) IN [i \in 1..Len(shown) |-> [name |-> shown[i].props["name"], above |-> AboveOf(shown[i])]]

Count(s, x) == Cardinality({i \in 1..Len(s) : s[i] = x})

\* C12: with unique moRefs and terminating parent chains, every named
\* folder other than a hidden top-level "vm" folder is exactly one node of
\* the tree, under the node of its parent folder; the children of a hidden
\* "vm" folder and the folders whose parent is not in the list are roots.
C12_EveryFolderOnce ==
    ListedFolders
    => (/\ Len(TreeEdges) = Len(ExpectedEdges)
        /\ \A e \in Range(TreeEdges) \cup Range(ExpectedEdges) : Count(TreeEdges, e) = Count(ExpectedEdges, e))

\* "Dev" at the top with "Prod" inside it.
C12_Witness ==
    /\ ListedFolders /\ Len(Folders) = 2
    /\ Folders[2].props["parent"] = Folders[1].moRef
    /\ outcome.value = <<[name |-> N_Dev, children |-> <<[name |-> N_Prod, children |-> <<>>]>>]>>

(***************************************************************************)
(* Properties of listResourcePools, under SpecVsphere.                     *)
(***************************************************************************)
IsClusterItem(e) == e.type = "cluster"

IsPoolItem(e) == e.type = "resource_pool"

ClusterItems == Filter(IsClusterItem, outcome.value)

PoolItems == Filter(IsPoolItem, outcome.value)

\* The names the inventory holds: of every named ComputeResource, and of
\* every named ResourcePool object other than "Resources".
NamedClusters == LET Has(r) == r.props["name"] # Undefined /\ r.props["name"] # <<>> named == Filter(Has, Parsed(1)) IN [i \in 1..Len(named) |-> named[i].props["name"]]

NamedPools == LET Has(r) == r.type = "ResourcePool" /\ r.props["name"] # Undefined /\ r.props["name"] # <<>> /\ r.props["name"] # <<82, 101, 115, 111, 117, 114, 99, 101, 115>> named == Filter(Has, Parsed(2)) IN [i \in 1..Len(named) |-> named[i].props["name"]]

SameBag(s, t) == Len(s) = Len(t) /\ \A x \in Range(s) \cup Range(t) : Count(s, x) = Count(t, x)

\* C13: listResourcePools returns every named cluster as a "cluster" item,
\* in name order (by code units), then every named resource pool other
\* than "Resources" as a "resource_pool" item, in name order (by
\* localeCompare); no cluster item follows a resource_pool item.
C13_ClustersThenPools ==
    (Done("listResourcePools") /\ AllHttp)
    => (/\ outcome.kind = "return"
        /\ outcome.value = ClusterItems \o PoolItems
        /\ SameBag(NamesOf([i \in 1..Len(ClusterItems) |-> [props |-> ClusterItems[i]]]), NamedClusters)
        /\ SameBag(NamesOf([i \in 1..Len(PoolItems) |-> [props |-> PoolItems[i]]]), NamedPools)
        /\ \A i, j \in 1..Len(ClusterItems) : (i < j) => ~UnitLess(ClusterItems[j].name, ClusterItems[i].name)
        /\ \A i, j \in 1..Len(PoolItems) : (i < j) => (localeCompare(PoolItems[i].name, PoolItems[j].name) <= 0)
        /\ \A i \in 1..Len(PoolItems) : PoolItems[i].name # S_Resources)

\* Two clusters and a user pool next to the root pool "Resources".
C13_Witness ==
    /\ Done("listResourcePools") /\ AllHttp /\ outcome.kind = "return"
    /\ Len(ClusterItems) = 2 /\ ClusterItems[1].name # ClusterItems[2].name
    /\ Len(PoolItems) = 1
    /\ \E i \in 1..Len(Parsed(2)) : Parsed(2)[i].props["name"] = S_Resources

(***************************************************************************)
(* check* against list*, on the answers of the same server.                *)
(***************************************************************************)
ItemNamed(n) == \E i \in 1..Len(outcome.value) : outcome.value[i].name = n

\* C14: on the same inventory, checkDatacenter(s, n) is true exactly when
\* n is among the names listDatacenters(s) returned, and
\* checkResourcePool(s, n) is true exactly when the list
\* listResourcePools(s) returned has an item named n, of either type.
C14_CheckIsMembership ==
    /\ (Done("listDatacenters") /\ AllHttp /\ outcome.kind = "return")
       => (\A n \in CheckNames : checkDatacenter(Promise(1), n) = Return(n \in Range(outcome.value)))
    /\ (Done("listResourcePools") /\ AllHttp /\ outcome.kind = "return")
       => (\A n \in CheckNames : checkResourcePool(Promise(1), n) = Return(ItemNamed(n)))

\* C15: on the same NSX response, checkTransportZone(s, n) is true exactly
\* when n is in listTransportZones(s), checkEdgeCluster(s, n) exactly when
\* n is in listEdgeClusters(s), and checkT0(s, n) exactly when n is in
\* listT0Gateways(s).
C15_NsxCheckIsMembership ==
    /\ (Done("listTransportZones") /\ outcome.kind = "return")
       => (\A n \in CheckNames : checkTransportZone(restGet(resp[1]), n) = Return(n \in Range(outcome.value)))
    /\ (Done("listEdgeClusters") /\ outcome.kind = "return")
       => (\A n \in CheckNames : checkEdgeCluster(restGet(resp[1]), n) = Return(n \in Range(outcome.value)))
    /\ (Done("listT0Gateways") /\ outcome.kind = "return")
       => (\A n \in CheckNames : checkT0(restGet(resp[1]), n) = Return(n \in Range(outcome.value)))

(***************************************************************************)
(* Properties of the NSX lists, under SpecNsx.                             *)
(***************************************************************************)
OkJson(i) == resp[i].kind = "response" /\ resp[i].statusCode = 200 /\ resp[i].body.json = "object"

\* The items of the results array of the response, [] when there is none.
Items == IF Len(resp[1].body.results) = 0 THEN <<>> ELSE resp[1].body.results[1]

OverlayNames == LET Overlay(r) == r.transport_type = <<79, 86, 69, 82, 76, 65, 89>> zones == Filter(Overlay, Items) IN [i \in 1..Len(zones) |-> zones[i].display_name]

\* Non-decreasing in code-unit order, undefined entries last.
InDefaultOrder(s) == \A i, j \in 1..Len(s) : (i < j) => ~DefaultLess(s[j], s[i])

\* C16: on a 200 response listTransportZones returns the display names of
\* the zones whose transport_type is "OVERLAY", one entry per such zone and
\* none for a zone of another type, in sorted order.
C16_OverlayZonesOnly ==
    (Done("listTransportZones") /\ OkJson(1))
    => (outcome.kind = "return" /\ SameBag(outcome.value, OverlayNames) /\ InDefaultOrder(outcome.value))

\* A VLAN zone "A" and an OVERLAY zone "B": only "B" is returned.
C16_Witness ==
    /\ Done("listTransportZones") /\ OkJson(1)
    /\ Items = <<[display_name |-> N_A, transport_type |-> S_VLAN], [display_name |-> N_B, transport_type |-> S_OVERLAY]>>
    /\ outcome = Return(<<N_B>>)

\* The sequence s rearranged by the permutation f of its indices.
Rearranged(s, f) == [i \in 1..Len(s) |-> s[f[i]]]

\* The response resp[1] with the objects of its body, or the items of its
\* results array, rearranged.
RearrangedObjects(f) == [resp[1] EXCEPT !.body = Rearranged(resp[1].body, f)]

RearrangedItems(f) == [resp[1] EXCEPT !.body.results = <<Rearranged(Items, f)>>]

\* C17: listDatacenters, listEdgeClusters and listT0Gateways return the
\* same sequence for every rearrangement of the objects of the response,
\* and the sequence is in case-sensitive (code unit) lexicographic order.
C17_OrderIndependent ==
    /\ (Done("listDatacenters") /\ AllHttp)
       => (/\ InDefaultOrder(outcome.value)
           /\ \A f \in Permutations(1..Len(resp[1].body)) : listDatacenters(retrieveProperties(RearrangedObjects(f))) = outcome)
    /\ (Done("listEdgeClusters") /\ OkJson(1) /\ Len(Items) > 0)
       => (/\ InDefaultOrder(outcome.value)
           /\ \A f \in Permutations(1..Len(Items)) : listEdgeClusters(restGet(RearrangedItems(f))) = outcome)
    /\ (Done("listT0Gateways") /\ OkJson(1) /\ Len(Items) > 0)
       => (/\ InDefaultOrder(outcome.value)
           /\ \A f \in Permutations(1..Len(Items)) : listT0Gateways(restGet(RearrangedItems(f))) = outcome)

\* Datacenters "a" and "B", in this order in the response, come back as
\* "B", "a".
C17_Witness ==
    /\ Done("listDatacenters") /\ AllHttp /\ Len(Parsed(1)) = 2
    /\ Parsed(1)[1].props["name"] = N_a /\ Parsed(1)[2].props["name"] = N_B
    /\ outcome = Return(<<N_B, N_a>>)

(***************************************************************************)
(* Properties of calls sharing one Session, under SpecCalls.               *)
(***************************************************************************)
QueryAlone(kind) == CASE kind = "Datacenter" -> Q_Datacenter [] kind = "ComputeResource" -> Q_ComputeResource [] kind = "ResourcePool" -> Q_ResourcePool [] kind = "StoragePod" -> Q_StoragePod [] kind = "Datastore" -> Q_Datastore [] kind = "DatastoreSummary" -> Q_DatastoreSummary [] kind = "Folder" -> Q_Folder [] OTHER -> Q_FolderName

RECURSIVE KindsOfCalls(_)
KindsOfCalls(calls) == IF calls = <<>> THEN <<>> ELSE QueryKinds(Head(calls).op) \o KindsOfCalls(Tail(calls))

\* C18: whatever calls have been started on a Session, and whichever of
\* them are still waiting, the Session and the module-level traversal
\* definitions are as they were, and the request of every query is the
\* request that query sends when it runs first.
C18_NoSharedWrites ==
    (pc = "idle" /\ Len(call) > 0)
    => (/\ session \in VsSessions
        /\ module = ModuleTraversals
        /\ Len(sent) = Len(KindsOfCalls(call))
        /\ \A i \in 1..Len(sent) : sent[i] = retrievePropertiesRequest(CHOOSE v \in VsSessions : TRUE, QueryAlone(KindsOfCalls(call)[i])))

\* The inventory handler has started its four list calls and, while they
\* wait, listDatacenters is called again.
C18_Witness ==
    /\ Len(call) = 2 /\ call[1].op = "handleVsphereInventory" /\ ~call[1].done
    /\ call[2].op = "listDatacenters" /\ ~call[2].done
    /\ Len(sent) = 7

(***************************************************************************)
(* Properties of both clients, under SpecClients.                          *)
(***************************************************************************)
OneRequestOps == NsxListOps \cup NsxCheckOps \cup {"nsx.connect", "listDatacenters", "checkDatacenter", "checkResourcePool", "listVmFolders", "checkVmFolder"}

TwoRequestOps == {"listResourcePools", "listDatastores", "checkDatastore"}

\* C19: no call sends a request again.  From its start to its end and
\* after, whatever the answers, NSX connect and every NSX list or check
\* have sent exactly 1 request; vSphere connect RetrieveServiceContent
\* and then at most one Login; listDatacenters, checkDatacenter,
\* checkResourcePool, listVmFolders and checkVmFolder exactly 1;
\* listResourcePools, listDatastores and checkDatastore exactly 2,
\* different from each other.
C19_NoResend ==
    (pc # "idle")
    => (/\ Len(resp) = Len(sent)
        /\ ((call.op \in OneRequestOps) => (Len(sent) = 1))
        /\ ((call.op \in TwoRequestOps) => (Len(sent) = 2 /\ sent[1] # sent[2]))
        /\ ((call.op = "vsphere.connect")
            => (/\ Len(sent) \in {1, 2}
                /\ sent[1].SOAPAction = "urn:vim25/RetrieveServiceContent"
                /\ ((Len(sent) = 2) => (sent[2].SOAPAction = "urn:vim25/Login"))
                /\ ((pc = "vsphere.connect.content") => (Len(sent) = 1)))))

\* listDatacenters ended by a transport error, with its one request sent.
C19_Witness ==
    /\ Done("listDatacenters") /\ resp[1].kind = "error" /\ outcome.kind = "throw"
    /\ Len(sent) = 1

(***************************************************************************)
(* Properties of the two-query lists, under SpecVsphere.                   *)
(***************************************************************************)
FanOutCall == pc # "idle" /\ call.op \in {"listResourcePools", "listDatastores"}

\* C20: listResourcePools and listDatastores have sent both of their
\* queries before any answer has come; they return a result only when
\* both queries have been answered, and then they do return one; they
\* throw, with no partial result, when a query is rejected.
C20_FanOutJoin ==
    FanOutCall
    => (/\ Len(sent) = 2 /\ sent[1] # sent[2]
        /\ ((outcome.kind = "return") => (\A i \in 1..2 : resp[i].kind = "response"))
        /\ ((pc = "done" /\ (\A i \in 1..2 : resp[i].kind = "response")) => (outcome.kind = "return"))
        /\ ((pc = "done" /\ (\E i \in 1..2 : resp[i].kind = "error")) => (outcome.kind = "throw" /\ outcome.value = <<>>))
        /\ ((pc = "done") => (\E i \in 1..2 : resp[i].kind = "error") \/ (\A i \in 1..2 : resp[i].kind = "response")))

\* The cluster query answered with a cluster, the resource pool query
\* rejected: listResourcePools throws.
C20_Witness ==
    /\ Done("listResourcePools") /\ resp[1].kind = "response" /\ Len(Parsed(1)) > 0
    /\ Parsed(1)[1].props["name"] = N_A
    /\ resp[2].kind = "error" /\ outcome.kind = "throw"

(***************************************************************************)
(* The traversal rewrite of retrieveProperties as a function of the query: *)
(* SpecMerge draws the traversals of a query from the definitions of the   *)
(* module and applies the rewrite to them, and then to its own output.     *)
(***************************************************************************)
\* A traverseFolder definition whose selectSet already names traverseDC, and
\* one that names itself twice.
FolderNamingDC == [TRAVERSE_FOLDER EXCEPT !.selectSet = <<"traverseFolder", "traverseDC">>]

FolderNamingTwice == [TRAVERSE_FOLDER EXCEPT !.selectSet = <<"traverseFolder", "traverseFolder">>]

TraversalDefs == {TRAVERSE_FOLDER, TRAVERSE_DC_HOST, TRAVERSE_DC_DATASTORE, TRAVERSE_DC_VM, TRAVERSE_CR_RP, TRAVERSE_RP, FolderNamingDC, FolderNamingTwice}

\* The queries the client issues.
ClientQueries == {Q_Datacenter, Q_ComputeResource, Q_ResourcePool, Q_StoragePod, Q_Datastore, Q_DatastoreSummary, Q_Folder, Q_FolderName}

ClientTraversals == {q.traversals : q \in ClientQueries}

MergeInputs == SeqsUpTo(TraversalDefs, MaxTraversals) \cup ClientTraversals

InitMerge == call \in {[op |-> "retrieveProperties", traversals |-> t] : t \in MergeInputs} /\ pc = "idle" /\ sent = <<>> /\ resp = <<>> /\ outcome = NoOutcome /\ session = NoSession /\ module = ModuleTraversals /\ collector = NoWalk /\ handler = NoHandler /\ upload = NoUpload

\* The rewrite of the query as written.
mergeOnce == pc = "idle" /\ pc' = "merged" /\ outcome' = Return(mergeTraversals(call.traversals)) /\ UNCHANGED <<upload, handler, collector, call, sent, resp, session, module>>

\* The rewrite of the rewritten query; resp keeps the first result.
mergeAgain == pc = "merged" /\ pc' = "merged twice" /\ resp' = <<outcome.value>> /\ outcome' = Return(mergeTraversals(outcome.value)) /\ UNCHANGED <<upload, handler, collector, call, sent, session, module>>

NextMerge == mergeOnce \/ mergeAgain

SpecMerge == InitMerge /\ [][NextMerge]_vars

HasFolderTraversal(t) == \E i \in 1..Len(t) : t[i].name = "traverseFolder"

\* C21: for a list of definitions with a traverseFolder entry, the rewrite
\* of the rewritten list is the rewritten list: the same definitions, and
\* so the same follow-list of traverseFolder, in the same order.
C21_MergeIdempotent ==
    (pc = "merged twice" /\ HasFolderTraversal(call.traversals))
        => (outcome.value = resp[1])

C21_Witness ==
    /\ pc = "merged twice"
    /\ call.traversals = <<TRAVERSE_DC_VM, FolderNamingDC, TRAVERSE_RP>>
    /\ resp[1][1].selectSet = <<"traverseFolder", "traverseDC", "traverseRP">>

FirstFolder(t) == t[CHOOSE i \in 1..Len(t) : t[i].name = "traverseFolder" /\ \A j \in 1..(i - 1) : t[j].name # "traverseFolder"]

OtherIndexes(t) == {i \in 1..Len(t) : t[i].name # "traverseFolder"}

NoDuplicates(s) == \A i, j \in 1..Len(s) : (s[i] = s[j]) => (i = j)

\* Every name a follow-list of the request refers to is the name of a
\* TraversalSpec of that request.
NamesResolve(specs) == \A i \in 1..Len(specs) : \A j \in 1..Len(specs[i].selectSet) : \E k \in 1..Len(specs) : specs[k].name = specs[i].selectSet[j].name

\* C22: after the rewrite of a query with a traverseFolder definition there
\* is one traverseFolder definition; its follow-list holds the entries it
\* had and the name of every other definition, each once; the other
\* definitions follow unchanged in their order; and for the queries of the
\* client every name in a follow-list of the request is defined in it.
C22_MergeWires ==
    (pc = "merged" /\ HasFolderTraversal(call.traversals))
        => (LET t == call.traversals
                m == outcome.value
                folder == FirstFolder(t)
                others == OtherIndexes(t)
            IN  /\ Cardinality({i \in 1..Len(m) : m[i].name = "traverseFolder"}) = 1
                /\ Range(FirstFolder(m).selectSet) = Range(folder.selectSet) \cup {t[i].name : i \in others}
                /\ NoDuplicates(FirstFolder(m).selectSet)
                /\ [FirstFolder(m) EXCEPT !.selectSet = <<>>] = [folder EXCEPT !.selectSet = <<>>]
                /\ Cardinality(OtherIndexes(m)) = Cardinality(others)
                /\ \A i \in others : \E k \in OtherIndexes(m) :
                       /\ m[k] = t[i]
                       /\ Cardinality({j \in OtherIndexes(m) : j <= k}) = Cardinality({j \in others : j <= i})
                /\ (t \in ClientTraversals => NamesResolve(buildTraversalXml(m))))

C22_Witness ==
    /\ pc = "merged"
    /\ call.traversals = Q_ResourcePool.traversals
    /\ outcome.value[1].selectSet = <<"traverseFolder", "traverseDC", "traverseCR", "traverseRP">>
    /\ Len(outcome.value) = 4

(***************************************************************************)
(* The inventory of a vCenter server and the walk its PropertyCollector    *)
(* makes for a RetrieveProperties request: it starts at the object of the  *)
(* objectSet, applies to each object it visits every selected              *)
(* TraversalSpec whose type the object has, follows the path property and  *)
(* goes on at the objects found there with the TraversalSpecs named in     *)
(* the selectSet of the spec that led to them.                             *)
(***************************************************************************)
\* Managed object types: a StoragePod is a Folder, a cluster is a
\* ComputeResource and a vApp is a ResourcePool.
IsA(type, T) == type = T \/ <<type, T>> \in {<<"StoragePod", "Folder">>, <<"ClusterComputeResource", "ComputeResource">>, <<"VirtualApp", "ResourcePool">>}

\* An inventory is a sequence of objects; parent is the index of the object
\* that holds this one in its property via.  role tells the four folder
\* trees of a datacenter from the folders that hold datacenters.
Node(type, role, parent, via) == [type |-> type, role |-> role, parent |-> parent, via |-> via]

RootNode == Node("Folder", "datacenter", 0, "")

\* The objects an object of the inventory can hold, by property.
ChildKinds(p) == IF p.type = "Folder" /\ p.role = "datacenter" THEN {[type |-> "Folder", role |-> "datacenter", via |-> "childEntity"], [type |-> "Datacenter", role |-> "", via |-> "childEntity"]} ELSE IF p.type = "Datacenter" THEN {[type |-> "Folder", role |-> "host", via |-> "hostFolder"], [type |-> "Folder", role |-> "datastore", via |-> "datastoreFolder"], [type |-> "Folder", role |-> "vm", via |-> "vmFolder"]} ELSE IF p.type = "Folder" /\ p.role = "host" THEN {[type |-> "Folder", role |-> "host", via |-> "childEntity"], [type |-> "ComputeResource", role |-> "", via |-> "childEntity"], [type |-> "ClusterComputeResource", role |-> "", via |-> "childEntity"]} ELSE IF p.type = "Folder" /\ p.role = "datastore" THEN {[type |-> "Folder", role |-> "datastore", via |-> "childEntity"], [type |-> "Datastore", role |-> "", via |-> "childEntity"], [type |-> "StoragePod", role |-> "", via |-> "childEntity"]} ELSE IF p.type = "StoragePod" THEN {[type |-> "Datastore", role |-> "", via |-> "childEntity"]} ELSE IF p.type = "Folder" /\ p.role = "vm" THEN {[type |-> "Folder", role |-> "vm", via |-> "childEntity"]} ELSE IF IsA(p.type, "ComputeResource") THEN {[type |-> "ResourcePool", role |-> "", via |-> "resourcePool"]} ELSE IF IsA(p.type, "ResourcePool") THEN {[type |-> "ResourcePool", role |-> "", via |-> "resourcePool"], [type |-> "VirtualApp", role |-> "", via |-> "resourcePool"]} ELSE {}

\* hostFolder, datastoreFolder, vmFolder and the resourcePool of a
\* ComputeResource hold one object; childEntity and the resourcePool of a
\* ResourcePool hold a list.
SingleValued(p, via) == p.type = "Datacenter" \/ IsA(p.type, "ComputeResource")

ChildrenVia(inv, n, via) == {c \in 1..Len(inv) : inv[c].parent = n /\ inv[c].via = via}

\* The inventories with one object more; the objects are numbered level by
\* level, so that an object comes after the objects held by earlier ones.
Extensions(inv) == {Append(inv, Node(k.type, k.role, p, k.via)) : <<p, k>> \in {<<p, k>> \in (1..Len(inv)) \X UNION {ChildKinds(inv[i]) : i \in 1..Len(inv)} : p >= inv[Len(inv)].parent /\ k \in ChildKinds(inv[p]) /\ (SingleValued(inv[p], k.via) => ChildrenVia(inv, p, k.via) = {})}}

RECURSIVE InventoriesOf(_)
InventoriesOf(n) == IF n <= 1 THEN {<<RootNode>>} ELSE LET smaller == InventoriesOf(n - 1) IN smaller \cup UNION {Extensions(inv) : inv \in smaller}

Inventories == InventoriesOf(MaxNodes)

\* The objects the objectSet of a request starts at.
StartNodes(inv, obj) == IF obj = RefRootFolder THEN {1} ELSE {}

\* The TraversalSpecs of the request a list of names selects.
Resolve(specs, names) == {k \in 1..Len(specs) : \E j \in 1..Len(names) : specs[k].name = names[j].name}

\* The objects one step of the walk leads to from <<n, selected>>, each with
\* the TraversalSpecs selected for it.
Reach(inv, specs, item) == {<<c, Resolve(specs, specs[k].selectSet)>> : <<c, k>> \in {<<c, k>> \in (1..Len(inv)) \X item[2] : IsA(inv[item[1]].type, specs[k].type) /\ c \in ChildrenVia(inv, item[1], specs[k].path)}}

InitWalk == call = NoCall /\ pc = "idle" /\ sent = <<>> /\ resp = <<>> /\ outcome = NoOutcome /\ module = ModuleTraversals /\ session \in VsSessions /\ collector \in {[phase |-> "idle", inventory |-> inv] : inv \in Inventories} /\ handler = NoHandler /\ upload = NoUpload

\* The RetrieveProperties request of a query of the client arrives.
collectorRequest == \E q \in ClientQueries : collector.phase = "idle" /\ LET req == retrievePropertiesRequest(session, q) IN call' = [op |-> "retrieveProperties", query |-> q] /\ sent' = <<req>> /\ collector' = [phase |-> "walking", inventory |-> collector.inventory, specs |-> req.body.selectSet, frontier |-> {<<n, 1..Len(req.body.selectSet)>> : n \in StartNodes(collector.inventory, req.body.obj)}, seen |-> {}, visited |-> {}] /\ UNCHANGED <<upload, handler, pc, resp, outcome, session, module>>

\* The walk visits the objects it has reached and follows their properties.
collectorStep == collector.phase = "walking" /\ collector.frontier # {} /\ LET seen == collector.seen \cup collector.frontier IN collector' = [collector EXCEPT !.visited = @ \cup {item[1] : item \in collector.frontier}, !.seen = seen, !.frontier = UNION {Reach(collector.inventory, collector.specs, item) : item \in collector.frontier} \ seen] /\ UNCHANGED <<upload, handler, call, pc, sent, resp, outcome, session, module>>

collectorDone == collector.phase = "walking" /\ collector.frontier = {} /\ collector' = [collector EXCEPT !.phase = "done"] /\ UNCHANGED <<upload, handler, call, pc, sent, resp, outcome, session, module>>

NextWalk == collectorRequest \/ collectorStep \/ collectorDone

SpecWalk == InitWalk /\ [][NextWalk]_vars

\* The objects a query is to find: the objects of its type, and of the
\* folders the VM folders.
Requested(q, node) == IsA(node.type, q.type) /\ (q.type = "Folder" => node.role = "vm")

\* C23: when the walk for a query of the client has ended, every object of
\* the inventory that has the requested type (for the folder queries: every
\* VM folder) has been visited, at whatever depth it lies.
C23_VisitsAll ==
    (collector.phase = "done")
        => (\A n \in 1..Len(collector.inventory) :
                Requested(call.query, collector.inventory[n]) => (n \in collector.visited))

C23_Witness ==
    /\ collector.phase = "done"
    /\ call.query = Q_ResourcePool
    /\ \E n \in collector.visited :
           /\ collector.inventory[n].type = "VirtualApp"
           /\ collector.inventory[collector.inventory[n].parent].type = "ResourcePool"
           /\ collector.inventory[collector.inventory[collector.inventory[n].parent].parent].type = "ClusterComputeResource"

(***************************************************************************)
(* The vSphere protocol from connect to the queries: a caller takes the    *)
(* Session connect returns and makes list* and check* calls with it.       *)
(***************************************************************************)
\* const session = await vsphere.connect(...) in a caller.
sessionHandOver == pc = "done" /\ call.op = "vsphere.connect" /\ outcome.kind = "return" /\ session = NoSession /\ session' = outcome.value /\ pc' = "idle" /\ UNCHANGED <<upload, handler, collector, call, sent, resp, outcome, module>>

QueryCalls == listDatacentersCall \/ checkDatacenterCall \/ listResourcePoolsCall \/ checkResourcePoolCall \/ listDatastoresCall \/ checkDatastoreCall \/ listVmFoldersCall \/ checkVmFolderCall

NextProtocol == (session = NoSession /\ (vsConnectCall \/ vsConnectContent \/ vsConnectLoginReturn \/ ServerAnswer)) \/ sessionHandOver \/ (session # NoSession /\ QueryCalls)

SpecProtocol == InitConnect /\ [][NextProtocol]_vars

\* The name=value segment of a Set-Cookie value: what stands before its
\* first semicolon.
NameValue(c) == SubSeq(c, 1, Cardinality({i \in 1..Len(c) : \A j \in 1..i : c[j] # 59}))

\* C24: the RetrieveServiceContent and Login requests have no Cookie
\* header; the cookies of the Session connect returns are the Set-Cookie
\* values of the Login response, each cut to its name=value segment; and
\* each RetrieveProperties request made with the Session carries these
\* cookies, joined by "; ", and no Cookie header when there are none.
C24_CookieFlow ==
    /\ \A i \in DOMAIN sent :
           (sent[i].body.operation \in {"RetrieveServiceContent", "Login"})
               => (sent[i].Cookie = Undefined)
    /\ (session # NoSession /\ call.op = "vsphere.connect")
           => (/\ resp[2].kind = "response"
               /\ Len(session.cookies) = Len(resp[2].setCookie)
               /\ \A k \in 1..Len(session.cookies) :
                      session.cookies[k] = NameValue(resp[2].setCookie[k]))
    /\ \A i \in DOMAIN sent :
           (session # NoSession /\ sent[i].body.operation = "RetrieveProperties")
               => (sent[i].Cookie = IF Len(session.cookies) = 0
                                       THEN Undefined
                                       ELSE JoinCookies(session.cookies))

C24_Witness ==
    /\ pc = "listResourcePools"
    /\ Len(session.cookies) = 2
    /\ Len(sent) = 2
    /\ sent[2].body.operation = "RetrieveProperties"
    /\ sent[2].Cookie = <<118, 109, 119, 97, 114, 101, 95, 115, 111, 97, 112, 95, 115, 101, 115, 115, 105, 111, 110, 61, 53, 50, 97, 98, 59, 32, 108, 97, 110, 103, 61, 101, 110>>

C24_WitnessNoCookie ==
    /\ pc = "listDatacenters"
    /\ session.cookies = <<>>
    /\ sent[1].Cookie = Undefined

(***************************************************************************)
(* parseReturnValues, on the result sets of the queries.                   *)
(***************************************************************************)
BlocksWithObj(xml) == {b \in 1..Len(xml) : xml[b].obj # <<>>}

\* The propSets of a block that carry the name k.
PropSetsNamed(block, k) == {p \in 1..Len(block.propSets) : block.propSets[p].name = <<k>>}

\* C26: parseReturnValues gives one object for each block with an <obj>
\* element, in the order of the blocks, and none for a block without one;
\* the object has the type and reference of the <obj>; a name with one
\* propSet maps to the first <val> of that propSet and is absent when the
\* propSet has no <val>; a name without propSet is absent; a name with
\* several propSets maps to the first <val> of one of them.
C26_OnePerObjBlock ==
    \A i \in DOMAIN resp :
        (pc = "done" /\ resp[i].kind = "response")
            => (LET xml == resp[i].body
                    with == BlocksWithObj(xml)
                    out == Parsed(i)
                IN  /\ Len(out) = Cardinality(with)
                    /\ \A b \in with :
                           LET o == out[Cardinality({c \in with : c <= b})]
                           IN  /\ o.type = xml[b].obj[1].type
                               /\ o.moRef = xml[b].obj[1].moRef
                               /\ \A k \in PropNames :
                                      LET sets == PropSetsNamed(xml[b], k)
                                      IN  /\ (sets = {}) => (o.props[k] = Undefined)
                                          /\ (\A p \in sets : xml[b].propSets[p].vals = <<>>) => (o.props[k] = Undefined)
                                          /\ (\E p \in sets : xml[b].propSets[p].vals # <<>>)
                                                 => (\E p \in sets : xml[b].propSets[p].vals # <<>> /\ o.props[k] = xml[b].propSets[p].vals[1]))

\* listDatacenters has parsed a block without <obj> followed by a block
\* with one.
C26_Witness ==
    /\ Done("listDatacenters") /\ resp[1].kind = "response"
    /\ Len(resp[1].body) = 2 /\ resp[1].body[1].obj = <<>>
    /\ Len(Parsed(1)) = 1 /\ Parsed(1)[1].props["name"] = N_A

\* ... and a block whose one propSet has two values.
C26_WitnessFirstVal ==
    /\ Done("listDatacenters") /\ resp[1].kind = "response"
    /\ Len(resp[1].body) = 2 /\ resp[1].body[1].obj # <<>>
    /\ resp[1].body[1].propSets = <<[name |-> <<"name">>, vals |-> <<N_A, N_B>>]>>
    /\ Parsed(1)[1].props["name"] = N_A

(***************************************************************************)
(* listVmFolders on result sets whose parent references need not lead out  *)
(* of the set.                                                             *)
(***************************************************************************)
ListedAnyFolders == Done("listVmFolders") /\ AllHttp /\ outcome.kind = "return"

\* The parent chain of the folder leaves the result set: the folder is
\* neither on a cycle nor below one.
OffCycle(r) == LeavesList(r.moRef, Len(Folders))

OnCycle(r) == \E n \in 1..Len(Folders) : \E chain \in [1..(n + 1) -> 1..Len(Folders)] : Folders[chain[1]] = r /\ Folders[chain[n + 1]] = r /\ \A i \in 1..n : Folders[chain[i]].props["parent"] = Folders[chain[i + 1]].moRef

ExpectedOffCycle == LET Listed(r) == Shown(r) /\ OffCycle(r) listed == Filter(Listed, Folders) IN [i \in 1..Len(listed) |-> [name |-> listed[i].props["name"], above |-> AboveOf(listed[i])]]

\* C28: for every Folder result set listVmFolders returns a tree; a folder
\* whose parent chain leaves the set is one node of it (a top-level "vm"
\* folder none), and a folder on a cycle of parent references, or below
\* one, is no node of it: no folder occurs more than once.
C28_CyclesAbsent ==
    /\ (pc = "done" /\ call.op = "listVmFolders" /\ AllHttp) => (outcome.kind = "return")
    /\ ListedAnyFolders
           => (/\ Len(TreeEdges) = Len(ExpectedOffCycle)
               /\ \A e \in Range(TreeEdges) \cup Range(ExpectedOffCycle) : Count(TreeEdges, e) = Count(ExpectedOffCycle, e))

\* Two folders, each the parent of the other.
C28_Witness ==
    /\ ListedAnyFolders /\ Len(Folders) = 2
    /\ Folders[1].props["parent"] = Folders[2].moRef
    /\ Folders[2].props["parent"] = Folders[1].moRef
    /\ OnCycle(Folders[1])
    /\ outcome.value = <<>>

\* A folder that is its own parent, with a folder in it.
C28_WitnessSelfParent ==
    /\ ListedAnyFolders /\ Len(Folders) = 2
    /\ Folders[1].props["parent"] = Folders[1].moRef
    /\ Folders[2].props["parent"] = Folders[1].moRef
    /\ outcome.value = <<>>

(***************************************************************************)
(* The four /test request handlers.  A handler is an async function the    *)
(* server calls without awaiting it; the calls it makes on the clients are *)
(* promises that are fulfilled or rejected.  step "returned" is the        *)
(* handler's promise fulfilled, step "rejected" the promise rejected with  *)
(* nobody handling the rejection.                                          *)
(***************************************************************************)
Routes == {"/test/vsphere", "/test/nsx", "/test/vsphere/inventory", "/test/nsx/inventory"}

IsInventory(route) == route \in {"/test/vsphere/inventory", "/test/nsx/inventory"}

\* The optional fields of the request body that lead to a check* call, in
\* the order of the handler's if statements.
CheckFields(route) == IF route = "/test/vsphere" THEN <<"datacenter", "resource_pool", "storage_datastore", "vmfolder">> ELSE IF route = "/test/nsx" THEN <<"edgecluster", "t0", "transportzone">> ELSE <<>>

CheckOf(field) == CASE field = "datacenter" -> "checkDatacenter" [] field = "resource_pool" -> "checkResourcePool" [] field = "storage_datastore" -> "checkDatastore" [] field = "vmfolder" -> "checkVmFolder" [] field = "edgecluster" -> "checkEdgeCluster" [] field = "t0" -> "checkT0" [] OTHER -> "checkTransportZone"

\* The list* calls in the Promise.all of an inventory handler.
ListsOf(route) == IF route = "/test/vsphere/inventory" THEN <<"listDatacenters", "listResourcePools", "listDatastores", "listVmFolders">> ELSE IF route = "/test/nsx/inventory" THEN <<"listTransportZones", "listEdgeClusters", "listT0Gateways">> ELSE <<>>

\* A request: its method, whether its body is no JSON, the JSON null or an
\* object, whether the object has hostname, username and password, and
\* which optional fields it has.
HandlerRequests == UNION {[route : {r}, method : {"POST", "GET"}, json : {"invalid", "null", "object"}, credentials : BOOLEAN, fields : SUBSET Range(CheckFields(r))] : r \in Routes}

\* What connect settles with: a Session or one of its errors.
ConnectOutcomes == {Return(<<>>)} \cup {Throw(m) : m \in {"Unable to connect", "Invalid credentials", TransportError.message}}

ClientCall(name) == [name |-> name, state |-> "pending", error |-> ""]

\* sendJson(...) followed by return.
sendJson(h, status, connected, error) == [h EXCEPT !.responses = Append(@, [status |-> status, connected |-> connected, error |-> error]), !.step = "returned"]

\* The handler up to its first await.
handlerEntered(req) == LET h == [NoHandler EXCEPT !.request = req] IN IF req.method # "POST" THEN sendJson(h, 405, "absent", "Method not allowed") ELSE [h EXCEPT !.step = "collectBody"]

\* From the body to the call of connect.  Destructuring the JSON null
\* throws a TypeError outside any try.
bodyRead(h) == IF h.request.json = "invalid" THEN sendJson(h, 400, "absent", "Invalid JSON") ELSE IF h.request.json = "null" THEN [h EXCEPT !.step = "rejected"] ELSE IF ~h.request.credentials THEN sendJson(h, 400, "absent", "hostname, username, and password are required") ELSE [h EXCEPT !.calls = <<ClientCall("connect")>>, !.step = "connect"]

PresentFields(req) == LET Present(f) == f \in req.fields IN Filter(Present, CheckFields(req.route))

\* The if statements after connect: the check of the next field the body
\* has, or the connected:true response when none is left.
nextCheck(h) == LET present == PresentFields(h.request) IN IF Len(h.calls) > Len(present) THEN sendJson(h, 200, "true", "") ELSE [h EXCEPT !.calls = Append(@, ClientCall(CheckOf(present[Len(h.calls)]))), !.step = "check"]

\* The array literal handed to Promise.all.
startLists(h) == LET lists == ListsOf(h.request.route) IN [h EXCEPT !.calls = @ \o [i \in 1..Len(lists) |-> ClientCall(lists[i])], !.step = "all"]

\* A handler that goes on to its checks whatever connect settled with.
connectSettledAnyway(h, o) == LET h1 == [h EXCEPT !.calls[1].state = IF o.kind = "throw" THEN "rejected" ELSE "fulfilled", !.calls[1].error = o.message] IN IF IsInventory(h.request.route) THEN startLists(h1) ELSE nextCheck(h1)

\* try { session = await connect(...) } catch (err) { sendJson(200,
\* { connected: false, error: msg }); return } and what follows it.
connectSettled(h, o) == LET h1 == [h EXCEPT !.calls[1].state = IF o.kind = "throw" THEN "rejected" ELSE "fulfilled", !.calls[1].error = o.message] IN IF o.kind = "throw" THEN sendJson(h1, 200, "false", o.message) ELSE IF IsInventory(h.request.route) THEN startLists(h1) ELSE nextCheck(h1)

AllFulfilled(calls) == \A i \in 1..Len(calls) : calls[i].state = "fulfilled"

\* The call i settles.  An awaited check that rejects, or the first list
\* that rejects, rejects the handler; the lists that settle after that
\* change nothing.
callSettled(h, i, ok) == LET h1 == [h EXCEPT !.calls[i].state = IF ok THEN "fulfilled" ELSE "rejected", !.calls[i].error = IF ok THEN "" ELSE TransportError.message] IN IF h.step = "check" THEN (IF ok THEN nextCheck(h1) ELSE [h1 EXCEPT !.step = "rejected"]) ELSE IF h.step = "all" THEN (IF ~ok THEN [h1 EXCEPT !.step = "rejected"] ELSE IF AllFulfilled(h1.calls) THEN sendJson(h1, 200, "true", "") ELSE h1) ELSE h1

handlerCalled == handler.step = "idle" /\ \E req \in HandlerRequests : handler' = handlerEntered(req) /\ UNCHANGED <<upload, call, pc, sent, resp, outcome, session, module, collector>>

handlerBodyRead == handler.step = "collectBody" /\ handler' = bodyRead(handler) /\ UNCHANGED <<upload, call, pc, sent, resp, outcome, session, module, collector>>

handlerConnectSettles == handler.step = "connect" /\ \E o \in ConnectOutcomes : handler' = connectSettled(handler, o) /\ UNCHANGED <<upload, call, pc, sent, resp, outcome, session, module, collector>>

handlerCallSettles == \E i \in 2..Len(handler.calls) : handler.calls[i].state = "pending" /\ \E ok \in BOOLEAN : handler' = callSettled(handler, i, ok) /\ UNCHANGED <<upload, call, pc, sent, resp, outcome, session, module, collector>>

InitHandlers == call = NoCall /\ pc = "idle" /\ sent = <<>> /\ resp = <<>> /\ outcome = NoOutcome /\ module = ModuleTraversals /\ session = NoSession /\ collector = NoWalk /\ handler = NoHandler /\ upload = NoUpload

NextHandlers == handlerCalled \/ handlerBodyRead \/ handlerConnectSettles \/ handlerCallSettles

SpecHandlers == InitHandlers /\ [][NextHandlers]_vars

\* The names of the check* or list* calls the request asks for.
CallsAskedFor(req) == IF IsInventory(req.route) THEN ListsOf(req.route) ELSE [i \in 1..Len(PresentFields(req)) |-> CheckOf(PresentFields(req)[i])]

\* C25: when connect has failed, the handler has made no other call and
\* its response is 200 with connected:false and the message of the error;
\* a check* or list* call is made only when connect has returned a
\* Session; and a connected:true response is sent only when every check*
\* and list* call the request asks for has been made and has completed.
C25_ConnectGates ==
    /\ (Len(handler.calls) >= 1 /\ handler.calls[1].state = "rejected")
           => (/\ Len(handler.calls) = 1
               /\ handler.responses = <<[status |-> 200, connected |-> "false", error |-> handler.calls[1].error]>>)
    /\ (Len(handler.calls) >= 2)
           => (handler.calls[1].name = "connect" /\ handler.calls[1].state = "fulfilled")
    /\ \A r \in Range(handler.responses) :
           (r.connected = "true")
               => (/\ r.status = 200
                   /\ AllFulfilled(handler.calls)
                   /\ [i \in 1..(Len(handler.calls) - 1) |-> handler.calls[i + 1].name] = CallsAskedFor(handler.request))

\* connect has failed with "Invalid credentials".
C25_Witness ==
    /\ handler.request.route = "/test/vsphere" /\ handler.request.fields = {"datacenter", "vmfolder"}
    /\ handler.calls = <<[name |-> "connect", state |-> "rejected", error |-> "Invalid credentials"]>>
    /\ handler.responses = <<[status |-> 200, connected |-> "false", error |-> "Invalid credentials"]>>

\* The inventory handler has answered after its four lists.
C25_WitnessConnected ==
    /\ handler.request.route = "/test/vsphere/inventory"
    /\ Len(handler.calls) = 5 /\ AllFulfilled(handler.calls)
    /\ handler.responses = <<[status |-> 200, connected |-> "true", error |-> ""]>>

\* C27: every POST to a /test handler gets exactly one response: when the
\* handler has ended it has sent one response, and it never sends two.
C27_OneResponse ==
    /\ Len(handler.responses) <= 1
    /\ (handler.request.method = "POST" /\ handler.step \in {"returned", "rejected"})
           => (Len(handler.responses) = 1)

(***************************************************************************)
(* The upload store and the background task of startBackgroundUpload, for  *)
(* one upload.  upload holds the entry of the store (status, loaded,       *)
(* error), the signal of its AbortController (aborted) and the task: the   *)
(* await it stands at (pc) and its local offset.                           *)
(***************************************************************************)
FileSizes == {k * CHUNK_SIZE + r : k \in 0..MaxChunks, r \in {0, 1}}

\* What GET /components/upload/<name> settles with: a current_size (0 also
\* for a response without one) or an error.
SizeAnswers == {[kind |-> "ok", size |-> s] : s \in FileSizes} \cup {[kind |-> "error", size |-> 0]}

addUpload(total) == [status |-> "uploading", loaded |-> 0, error |-> "", aborted |-> FALSE, pc |-> "resume", offset |-> 0, total |-> total]

updateProgress(u, loaded) == IF u.status = "none" THEN u ELSE [u EXCEPT !.loaded = loaded]

completeUpload(u) == IF u.status = "none" THEN u ELSE [u EXCEPT !.status = "done"]

failUpload(u, error) == IF u.status = "none" THEN u ELSE [u EXCEPT !.status = "failed", !.error = error]

cancelUpload(u) == IF u.status = "none" THEN u ELSE [u EXCEPT !.aborted = TRUE, !.status = "cancelled"]

\* The while loop from its head to the next await, or to the end of the
\* task through completeUpload or the AbortError caught at the bottom.
whileLoop(u) == IF u.offset < u.total THEN (IF u.aborted THEN [cancelUpload(u) EXCEPT !.pc = "ended"] ELSE [u EXCEPT !.pc = "post"]) ELSE [completeUpload(u) EXCEPT !.pc = "ended"]

\* After the resume check: an error is caught and the upload starts at 0.
resumeSettled(u, a) == LET serverSize == IF a.kind = "ok" THEN a.size ELSE 0 IN whileLoop(IF serverSize > 0 THEN updateProgress([u EXCEPT !.offset = serverSize], serverSize) ELSE u)

\* What the POST of a chunk settles with; an aborted signal rejects it.
PostAnswers(u) == IF u.aborted THEN {"cancel"} ELSE {"ok", "mismatch", "error"}

Min(a, b) == IF a < b THEN a ELSE b

postSettled(u, a) == CASE a = "ok" -> whileLoop(updateProgress([u EXCEPT !.offset = Min(u.offset + CHUNK_SIZE, u.total)], Min(u.offset + CHUNK_SIZE, u.total))) [] a = "mismatch" -> [u EXCEPT !.pc = "resync"] [] a = "cancel" -> [cancelUpload(u) EXCEPT !.pc = "ended"] [] OTHER -> [failUpload(u, "Network Error") EXCEPT !.pc = "ended"]

\* After the resync GET, which is awaited inside the catch of the POST: its
\* error goes to the catch at the bottom.
resyncSettled(u, a) == IF a.kind = "ok" THEN whileLoop([u EXCEPT !.offset = a.size]) ELSE [failUpload(u, "Network Error") EXCEPT !.pc = "ended"]

startBackgroundUpload == upload.status = "none" /\ \E total \in FileSizes : upload' = addUpload(total) /\ UNCHANGED <<call, pc, sent, resp, outcome, session, module, collector, handler>>

resumeCheckSettles == upload.pc = "resume" /\ \E a \in SizeAnswers : upload' = resumeSettled(upload, a) /\ UNCHANGED <<call, pc, sent, resp, outcome, session, module, collector, handler>>

chunkPostSettles == upload.pc = "post" /\ \E a \in PostAnswers(upload) : upload' = postSettled(upload, a) /\ UNCHANGED <<call, pc, sent, resp, outcome, session, module, collector, handler>>

resyncSettles == upload.pc = "resync" /\ \E a \in SizeAnswers : upload' = resyncSettled(upload, a) /\ UNCHANGED <<call, pc, sent, resp, outcome, session, module, collector, handler>>

\* The cancel button of an entry that is uploading.
userCancels == upload.status = "uploading" /\ upload' = cancelUpload(upload) /\ UNCHANGED <<call, pc, sent, resp, outcome, session, module, collector, handler>>

InitUploads == call = NoCall /\ pc = "idle" /\ sent = <<>> /\ resp = <<>> /\ outcome = NoOutcome /\ module = ModuleTraversals /\ session = NoSession /\ collector = NoWalk /\ handler = NoHandler /\ upload = NoUpload

NextUploads == startBackgroundUpload \/ resumeCheckSettles \/ chunkPostSettles \/ resyncSettles \/ userCancels

\* Every HTTP request of the task completes.
SpecUploads == InitUploads /\ [][NextUploads]_vars /\ WF_vars(resumeCheckSettles) /\ WF_vars(chunkPostSettles) /\ WF_vars(resyncSettles)

\* C29: once the store records the upload as cancelled, no step changes
\* its status.
C29_CancelledStays == [][(upload.status = "cancelled") => (upload'.status = "cancelled")]_vars

\* C30: an upload that has been started reaches the status done, failed or
\* cancelled.
C30_UploadEnds == (upload.status = "uploading") ~> (upload.status \in {"done", "failed", "cancelled"})

====
